---- MODULE Spec2Model ----
(***************************************************************************)
(* replic-sqlite: the replication core (lib/index.js), the hybrid logical  *)
(* clock (lib/hlc.js) and the keep_last aggregate (src/keep_last.c).       *)
(*                                                                         *)
(* Every node of Nodes runs the code.  A node's state is its in-memory     *)
(* fields and its database (the shadow table testA_patches, the staging    *)
(* table pending_patches, the materialised table testA and the migrations  *)
(* table).  The replicated user table is the tests' table testA, reduced   *)
(* to the primary key id and the nullable columns of Columns.              *)
(*                                                                         *)
(* Times are milliseconds since the HLC epoch (Date.now() minus            *)
(* UNIX_TIMESTAMP_OFFSET), so from(ms, c) is ms * 2^13 + c.                *)
(***************************************************************************)
EXTENDS Integers, Sequences, FiniteSets, Bags, TLC

(* ------------------------------ bounds -------------------------------- *)
MaxSeq == 2        \* patches a remote producer creates; own writes per node
MaxWall == 2       \* the wall clocks read 1..MaxWall
MaxVersion == 2    \* length of the longest appMigrations list
MaxCounter == 2    \* local writes made while the HLC counter is in use
MaxRemoteSeq == 3  \* patches of a producer whose gaps the detector looks for
MaxClosed == 1     \* closeRemotePeer calls in excess of the peers ever added
MaxBackoffTime == 8 \* the longest maxTime given to backoff, in ms
MaxDelay == 2      \* the longest initial delay given to backoff, in ms
MaxLate == 1       \* ms the event loop may run a timeout after its time

(* ------------------------- program constants -------------------------- *)
LAST_PATCH_AT_TIMESTAMP == 0
LAST_SEQUENCE_ID == 1
GUARANTEED_CONTIGUOUS_PATCH_AT_TIMESTAMP == 2
GUARANTEED_CONTIGUOUS_SEQUENCE_ID == 3
LAST_MESSAGE_TIMETSAMP == 4
PATCH == 10
PING == 20
MISSING_PATCH == 30
PENDING_PATCHES_TABLE_NAME == "_"
\* Number.MAX_SAFE_INTEGER, here the largest integer of the checker: only
\* "greater than every HLC" is used of it
MAX_SAFE_INTEGER == 2147483647
\* 2 ** 13: the counter's range inside an HLC
COUNTER_RANGE == 8192

NULL == "NULL"
Nodes == {1, 2}              \* peers running the code
Producers == {3, 4}          \* remote peers seen only through their messages
Columns == {"name", "deletedAt"}   \* non-key columns of testA
UserTable == "testA"

VARIABLES
  dbVersion, lastSequenceId, lastPatchAtTimestamp,   \* index.js closure state
  highestRemoteHLC, counter,                         \* hlc.js module state
  wall,                                              \* Date.now() of the node
  peerSockets, peerStats, peerStartedNotSynced,
  listeners,                \* sockets on which _onMessage is a 'message' listener
  nbConnectedPeers,         \* the counter reported as db_replication_connected_peers
  backoffs,                 \* the backoff call in progress, its polls and its timer
  tableStatements,          \* tables that have a prepared plan (savePatch ...)
  debounceFromTimestamp,    \* of tableStatements.testA
  flushScheduled,           \* a setImmediate flush of that object is pending
  orphanFlushes,            \* pending flushes of statement objects replaced by migrate
  migrations, schema,       \* rows of the migrations table; tables of the catalog
  testA_patches, pending_patches, testA,
  sent,                     \* socket.send calls of the last handler, in order
  cbResult,                 \* what the last upsert passed to its callback
  steps,                    \* the statements the last upsert executed, in order
  synced,                   \* 'synced' events emitted so far
  remote,                   \* patches each producer has created, by sequence id
  net                       \* messages in flight, as records [to, msg]

vars == <<dbVersion, lastSequenceId, lastPatchAtTimestamp, highestRemoteHLC,
          counter, wall, peerSockets, peerStats, peerStartedNotSynced,
          listeners, nbConnectedPeers, backoffs, tableStatements, debounceFromTimestamp,
          flushScheduled, orphanFlushes,
          migrations, schema, testA_patches, pending_patches, testA, sent,
          cbResult, steps, synced, remote, net>>

(* The state of node n as one record; the handlers below are functions of it. *)
St(n) ==
  [ dbVersion |-> dbVersion[n], lastSequenceId |-> lastSequenceId[n],
    lastPatchAtTimestamp |-> lastPatchAtTimestamp[n],
    highestRemoteHLC |-> highestRemoteHLC[n], counter |-> counter[n],
    wall |-> wall[n], peerSockets |-> peerSockets[n], peerStats |-> peerStats[n],
    peerStartedNotSynced |-> peerStartedNotSynced[n], listeners |-> listeners[n],
    nbConnectedPeers |-> nbConnectedPeers[n], backoffs |-> backoffs[n],
    tableStatements |-> tableStatements[n],
    debounceFromTimestamp |-> debounceFromTimestamp[n],
    flushScheduled |-> flushScheduled[n], orphanFlushes |-> orphanFlushes[n],
    migrations |-> migrations[n], schema |-> schema[n],
    testA_patches |-> testA_patches[n], pending_patches |-> pending_patches[n],
    testA |-> testA[n], sent |-> sent[n], cbResult |-> cbResult[n],
    steps |-> steps[n], synced |-> synced[n], myPeerId |-> n ]

Commit(n, s) ==
  /\ dbVersion' = [dbVersion EXCEPT ![n] = s.dbVersion]
  /\ lastSequenceId' = [lastSequenceId EXCEPT ![n] = s.lastSequenceId]
  /\ lastPatchAtTimestamp' = [lastPatchAtTimestamp EXCEPT ![n] = s.lastPatchAtTimestamp]
  /\ highestRemoteHLC' = [highestRemoteHLC EXCEPT ![n] = s.highestRemoteHLC]
  /\ counter' = [counter EXCEPT ![n] = s.counter]
  /\ wall' = [wall EXCEPT ![n] = s.wall]
  /\ peerSockets' = [peerSockets EXCEPT ![n] = s.peerSockets]
  /\ peerStats' = [peerStats EXCEPT ![n] = s.peerStats]
  /\ peerStartedNotSynced' = [peerStartedNotSynced EXCEPT ![n] = s.peerStartedNotSynced]
  /\ listeners' = [listeners EXCEPT ![n] = s.listeners]
  /\ nbConnectedPeers' = [nbConnectedPeers EXCEPT ![n] = s.nbConnectedPeers]
  /\ backoffs' = [backoffs EXCEPT ![n] = s.backoffs]
  /\ tableStatements' = [tableStatements EXCEPT ![n] = s.tableStatements]
  /\ debounceFromTimestamp' = [debounceFromTimestamp EXCEPT ![n] = s.debounceFromTimestamp]
  /\ flushScheduled' = [flushScheduled EXCEPT ![n] = s.flushScheduled]
  /\ orphanFlushes' = [orphanFlushes EXCEPT ![n] = s.orphanFlushes]
  /\ migrations' = [migrations EXCEPT ![n] = s.migrations]
  /\ schema' = [schema EXCEPT ![n] = s.schema]
  /\ testA_patches' = [testA_patches EXCEPT ![n] = s.testA_patches]
  /\ pending_patches' = [pending_patches EXCEPT ![n] = s.pending_patches]
  /\ testA' = [testA EXCEPT ![n] = s.testA]
  /\ sent' = [sent EXCEPT ![n] = s.sent]
  /\ cbResult' = [cbResult EXCEPT ![n] = s.cbResult]
  /\ steps' = [steps EXCEPT ![n] = s.steps]
  /\ synced' = [synced EXCEPT ![n] = s.synced]

(* ---------------------------- small helpers --------------------------- *)
Max(S) == CHOOSE x \in S : \A y \in S : y <= x
Min(S) == CHOOSE x \in S : \A y \in S : x <= y

\* the elements of a finite set of integers in ascending order (the order in
\* which for...in walks the integer-like keys of an object)
RECURSIVE Ascending(_)
Ascending(S) == IF S = {} THEN << >> ELSE <<Min(S)>> \o Ascending(S \ {Min(S)})

Without(f, k) == [x \in DOMAIN f \ {k} |-> f[x]]
With(f, k, v) == [x \in DOMAIN f \cup {k} |-> IF x = k THEN v ELSE f[x]]

\* handlers start with an empty record of what they emitted
NoCallback == [called |-> FALSE, err |-> "", token |-> ""]
\* no backoff call was made
NoBackoff == [called |-> FALSE]
Begin(s) == [s EXCEPT !.sent = << >>, !.cbResult = NoCallback, !.steps = << >>]

(* ------------------------------ hlc.js -------------------------------- *)
toTimestamp(hlc) == hlc \div COUNTER_RANGE
toCounter(hlc) == hlc % COUNTER_RANGE
from(ms, ctr) == ms * COUNTER_RANGE + ctr

receive(s, remoteHLC) ==
  IF remoteHLC > s.highestRemoteHLC
  THEN [s EXCEPT !.counter = IF toTimestamp(remoteHLC) > toTimestamp(s.highestRemoteHLC)
                              THEN 0 ELSE @,
                 !.highestRemoteHLC = remoteHLC]
  ELSE s

\* a create() that forgets counter++
createStateWithoutIncrement(s) ==
  IF from(s.wall, 0) > s.highestRemoteHLC
  THEN [s EXCEPT !.counter = 0]
  ELSE s

\* create() as the pair of its effect on the clock and the value it returns
createState(s) ==
  IF from(s.wall, 0) > s.highestRemoteHLC
  THEN [s EXCEPT !.counter = 0]
  ELSE [s EXCEPT !.counter = @ + 1]
\* a create() that adds the counter before incrementing it
createValueBeforeIncrement(s) ==
  IF from(s.wall, 0) > s.highestRemoteHLC
  THEN from(s.wall, 0)
  ELSE s.highestRemoteHLC + s.counter

createValue(s) ==
  IF from(s.wall, 0) > s.highestRemoteHLC
  THEN from(s.wall, 0)
  ELSE s.highestRemoteHLC + s.counter + 1

(* --------------------- keep_last (keep_last.c) ------------------------ *)
KeepLastCtx == [isInit |-> FALSE, last_value |-> NULL,
                patched_at |-> 0, peer_id |-> 0, sequence_id |-> 0]

keep_last_step(p, value, new_patched_at, new_peer_id, new_sequence_id) ==
  IF ~p.isInit
  THEN [isInit |-> TRUE, last_value |-> value, patched_at |-> new_patched_at,
        peer_id |-> new_peer_id, sequence_id |-> new_sequence_id]
  ELSE IF /\ value # NULL
          /\ \/ new_patched_at > p.patched_at
             \/ /\ new_patched_at = p.patched_at
                /\ \/ new_peer_id > p.peer_id
                   \/ new_peer_id = p.peer_id /\ new_sequence_id > p.sequence_id
       THEN [isInit |-> TRUE, last_value |-> value, patched_at |-> new_patched_at,
             peer_id |-> new_peer_id, sequence_id |-> new_sequence_id]
       ELSE p

keep_last_finalize(p) == p.last_value

\* the aggregate over the rows of one group, in the order the scan feeds them
RECURSIVE keep_last(_, _, _)
keep_last(rows, col, p) ==
  IF rows = << >> THEN keep_last_finalize(p)
  ELSE keep_last(Tail(rows), col,
                 keep_last_step(p, Head(rows)[col], Head(rows)._patchedAt,
                                Head(rows)._peerId, Head(rows)._sequenceId))

(* ------------- the statements of _generateMergePatchesQueryPlan ------- *)
Get(delta, k) == IF k \in DOMAIN delta THEN delta[k] ELSE NULL

\* INSERT INTO testA_patches: the row the parameters function builds
PatchRow(patch) ==
  [k \in {"_patchedAt", "_sequenceId", "_peerId", "id"} \cup Columns |->
     CASE k = "_patchedAt" -> patch.at
       [] k = "_sequenceId" -> patch.seq
       [] k = "_peerId" -> patch.peer
       [] OTHER -> Get(patch.delta, k)]

\* id is NOT NULL in testA_patches: the insert throws without it
savePatchThrows(patch) == Get(patch.delta, "id") = NULL

savePatch(s, patch) ==
  [s EXCEPT !.testA_patches = @ (+) SetToBag({PatchRow(patch)})]

\* INSERT INTO pending_patches (tableStatements._.savePatch)
PendingRow(patch) ==
  [_patchedAt |-> patch.at, _peerId |-> patch.peer, _sequenceId |-> patch.seq,
   patchVersion |-> patch.ver, tableName |-> patch.tab, delta |-> patch.delta]

savePending(s, patch) ==
  [s EXCEPT !.pending_patches = @ (+) SetToBag({PendingRow(patch)})]

\* the rows WHERE _patchedAt >= ? selects
Selected(table, fromTimestamp) ==
  LET rows == {r \in BagToSet(table) : r._patchedAt >= fromTimestamp}
  IN  [r \in rows |-> table[r]]

RECURSIVE Orders(_)
Orders(bag) ==
  IF DOMAIN bag = {} THEN {<< >>}
  ELSE UNION {{<<r>> \o q : q \in Orders(bag (-) SetToBag({r}))} : r \in DOMAIN bag}

\* SQL leaves the order in which an aggregate reads its rows open: every order
ScanOrders(table, fromTimestamp) == Orders(Selected(table, fromTimestamp))

RECURSIVE InIndexOrder(_)
InIndexOrder(bag) ==
  IF DOMAIN bag = {} THEN << >>
  ELSE LET r == CHOOSE x \in DOMAIN bag : \A y \in DOMAIN bag :
                  \/ x._patchedAt < y._patchedAt
                  \/ /\ x._patchedAt = y._patchedAt
                     /\ \/ x._peerId < y._peerId
                        \/ x._peerId = y._peerId /\ x._sequenceId <= y._sequenceId
       IN  <<r>> \o InIndexOrder(bag (-) SetToBag({r}))

\* the one order of a scan along the index on _patchedAt
IndexScan(table, fromTimestamp) == {InIndexOrder(Selected(table, fromTimestamp))}

\* the orders in which the statement may read the selected rows
Scans(alongIndex, table, fromTimestamp) ==
  IF alongIndex THEN IndexScan(table, fromTimestamp)
  ELSE ScanOrders(table, fromTimestamp)

GroupRows(scan, g) == SelectSeq(scan, LAMBDA r : r.id = g)

\* SET col = excluded.col, without coalesce
coalesceExcluded(a, b) == a

coalesce(a, b) == IF a # NULL THEN a ELSE b

\* INSERT INTO testA SELECT ... keep_last(...) ... GROUP BY id
\* ON CONFLICT (id) DO UPDATE SET col = coalesce(excluded.col, col)
applyPatches(s, scan) ==
  LET ids == {scan[i].id : i \in DOMAIN scan}
      excluded(g) == [k \in Columns \cup {"id"} |->
                        IF k = "id" THEN g
                        ELSE keep_last(GroupRows(scan, g), k, KeepLastCtx)]
      updated(old) == IF old.id \in ids
                      THEN [k \in Columns \cup {"id"} |->
                              IF k = "id" THEN old.id
                              ELSE coalesce(excluded(old.id)[k], old[k])]
                      ELSE old
      existing == {r.id : r \in s.testA}
  IN  [s EXCEPT !.testA = {updated(r) : r \in s.testA}
                            \cup {excluded(g) : g \in ids \ existing}]

(* --------------------------- global statements ------------------------ *)
\* rows of pending_patches and of every shadow table as (peer, seq, at)
AllPatchKeys(s) ==
  {[peerId |-> r._peerId, sequenceId |-> r._sequenceId, patchedAt |-> r._patchedAt] :
     r \in BagToSet(s.testA_patches) \cup BagToSet(s.pending_patches)}

\* getLastPatchInfo without the filter on _peerId
getLastPatchInfoOfAllPeers(s, fromTimestamp) ==
  LET all == {k \in AllPatchKeys(s) : k.patchedAt >= fromTimestamp}
  IN  IF all = {} THEN [isNull |-> TRUE, patchedAt |-> 0, sequenceId |-> 0]
      ELSE [isNull |-> FALSE, patchedAt |-> Max({k.patchedAt : k \in all}),
            sequenceId |-> Max({k.sequenceId : k \in all})]

\* getLastPatchInfo(fromTimestamp): MAX(_patchedAt), MAX(_sequenceId) of my rows
getLastPatchInfo(s, fromTimestamp) ==
  LET mine == {k \in AllPatchKeys(s) :
                 k.patchedAt >= fromTimestamp /\ k.peerId = s.myPeerId}
  IN  IF mine = {} THEN [isNull |-> TRUE, patchedAt |-> 0, sequenceId |-> 0]
      ELSE [isNull |-> FALSE, patchedAt |-> Max({k.patchedAt : k \in mine}),
            sequenceId |-> Max({k.sequenceId : k \in mine})]

\* an _initPeerSequence that does not read the database
_initPeerSequenceFromZero(s) ==
  [s EXCEPT !.lastSequenceId = 0, !.lastPatchAtTimestamp = 0]

_initPeerSequence(s) ==
  LET _stat == getLastPatchInfo(s, 0)
  IN  IF ~_stat.isNull /\ _stat.sequenceId > 0
      THEN [s EXCEPT !.lastSequenceId = _stat.sequenceId,
                     !.lastPatchAtTimestamp = _stat.patchedAt]
      ELSE [s EXCEPT !.lastSequenceId = 0, !.lastPatchAtTimestamp = 0]

(* ------------------------------ sending ------------------------------- *)
_sendMessageToPeer(s, peerId, msg) ==
  IF peerId \in DOMAIN s.peerSockets
  THEN [s EXCEPT !.sent = Append(@, [to |-> peerId, socket |-> s.peerSockets[peerId],
                                     msg |-> msg])]
  ELSE s

RECURSIVE SendEach(_, _, _)
SendEach(s, peers, msg) ==
  IF peers = << >> THEN s
  ELSE SendEach(_sendMessageToPeer(s, Head(peers), msg), Tail(peers), msg)

\* a broadcast that walks peerStats instead of peerSockets
_broadcastToKnownPeers(s, msg) ==
  [s EXCEPT !.sent = @ \o [i \in 1..Cardinality(DOMAIN s.peerStats) |->
                              [to |-> Ascending(DOMAIN s.peerStats)[i], socket |-> "s1",
                               msg |-> msg]]]

_broadcast(s, msg) == SendEach(s, Ascending(DOMAIN s.peerSockets), msg)

_generateSessionToken(peerId, sequenceId) ==
  ToString(peerId) \o "." \o ToString(sequenceId)

\* the comparison with > instead of >=
isConsistentFromSessionTokenStrict(s, peerId, sequenceId) ==
  IF peerId = 0 \/ peerId \notin DOMAIN s.peerStats THEN TRUE
  ELSE IF s.peerStats[peerId][GUARANTEED_CONTIGUOUS_SEQUENCE_ID] > sequenceId THEN TRUE
  ELSE FALSE

\* isConsistentFromSessionToken(peerId, sequenceId); a falsy peerId is 0 here
isConsistentFromSessionToken(s, peerId, sequenceId) ==
  IF peerId = 0 \/ peerId \notin DOMAIN s.peerStats THEN TRUE
  ELSE IF s.peerStats[peerId][GUARANTEED_CONTIGUOUS_SEQUENCE_ID] >= sequenceId THEN TRUE
  ELSE FALSE

(* ------------------------------ upsert -------------------------------- *)
\* tableStatements['_'] exists from construction, the others once prepared
HasStatement(s, tableName) ==
  tableName = PENDING_PATCHES_TABLE_NAME \/ tableName \in s.tableStatements

\* upsert without its first guard
upsertErrorNoVersionGuard(s, tableName) ==
  IF ~(tableName = PENDING_PATCHES_TABLE_NAME \/ tableName \in s.tableStatements)
  THEN "Table not found"
  ELSE IF s.lastSequenceId = -1 THEN "System not correctly initialized"
  ELSE ""

\* the three guards of upsert, "" when none refuses the call
upsertError(s, tableName) ==
  IF s.dbVersion = 0 THEN "Database version is not set"
  ELSE IF ~HasStatement(s, tableName) THEN "Table not found"
  ELSE IF s.lastSequenceId = -1 THEN "System not correctly initialized"
  ELSE ""

upsertPatch(s, tableName, rowPatch) ==
  [type |-> PATCH, at |-> createValue(s), peer |-> s.myPeerId,
   seq |-> s.lastSequenceId + 1, ver |-> s.dbVersion, tab |-> tableName,
   delta |-> rowPatch]

\* hlc.create(), savePatch, then lastSequenceId++ and lastPatchAtTimestamp
upsertSave(s, tableName, rowPatch) ==
  LET _patch == upsertPatch(s, tableName, rowPatch)
      s1 == createState(s)
  IN  IF tableName = PENDING_PATCHES_TABLE_NAME
      THEN [savePending(s1, _patch) EXCEPT
              !.lastSequenceId = @ + 1, !.lastPatchAtTimestamp = _patch.at,
              !.steps = @ \o <<"savePatch", "lastSequenceId">>]
      ELSE IF savePatchThrows(_patch) THEN s1
      ELSE [savePatch(s1, _patch) EXCEPT
              !.lastSequenceId = @ + 1, !.lastPatchAtTimestamp = _patch.at,
              !.steps = @ \o <<"savePatch", "lastSequenceId">>]

\* _tableStatement?.applyPatches?.(_patch.at), _broadcast, callback
upsertFinish(s1, _patch, hasCallback, scan) ==
  LET s2 == IF _patch.tab = PENDING_PATCHES_TABLE_NAME THEN s1
            ELSE [applyPatches(s1, scan) EXCEPT !.steps = Append(@, "applyPatches")]
      s3 == [_broadcast(s2, _patch) EXCEPT !.steps = Append(@, "broadcast")]
  IN  IF hasCallback
      THEN [s3 EXCEPT !.steps = Append(@, "callback"),
                      !.cbResult = [called |-> TRUE, err |-> "",
                                    token |-> _generateSessionToken(s3.myPeerId, _patch.seq)]]
      ELSE s3

\* upsert(tableName, rowPatch, callback); scan is the order in which the merge
\* pass reads the selected shadow rows.  Without a callback a refused call
\* throws (callback is not a function) and changes nothing.
upsert(s, tableName, rowPatch, hasCallback, scan) ==
  LET s0 == Begin(s)
      err == upsertError(s0, tableName)
      _patch == upsertPatch(s0, tableName, rowPatch)
      s1 == upsertSave(s0, tableName, rowPatch)
  IN  IF err # ""
      THEN IF hasCallback
           THEN [s0 EXCEPT !.cbResult = [called |-> TRUE, err |-> err, token |-> ""]]
           ELSE s0
      ELSE IF s1.lastSequenceId = s0.lastSequenceId THEN s1   \* savePatch threw
      ELSE upsertFinish(s1, _patch, hasCallback, scan)

\* the scans the merge pass of this upsert may make
upsertScans(s, tableName, rowPatch) ==
  IF upsertError(s, tableName) # "" \/ tableName = PENDING_PATCHES_TABLE_NAME
  THEN {<< >>}
  ELSE ScanOrders(upsertSave(s, tableName, rowPatch).testA_patches, createValue(s))

\* a ping that is stored whatever persist says
_generatePingStatMessageAlwaysStored(s, persist) ==
  upsert(s, PENDING_PATCHES_TABLE_NAME, s.peerStats, FALSE, << >>)

\* _generatePingStatMessage(persist)
_generatePingStatMessage(s, persist) ==
  IF persist
  THEN upsert(s, PENDING_PATCHES_TABLE_NAME, s.peerStats, FALSE, << >>)
  ELSE _broadcast(Begin(s),
         [type |-> PING, at |-> s.lastPatchAtTimestamp, peer |-> s.myPeerId,
          seq |-> s.lastSequenceId, ver |-> s.dbVersion,
          tab |-> PENDING_PATCHES_TABLE_NAME, delta |-> s.peerStats])

(* -------------------------- retention sweep ---------------------------- *)
\* options.maxPatchRetentionMs, in units of the wall clock
MAX_PATCH_RETENTION_MS == 1

\* a sweep that also deletes the rows stamped with the cut-off itself
deleteOldPatchesInclusive(table, timestamp) ==
  LET rows == {r \in BagToSet(table) : r._patchedAt > timestamp}
  IN  [r \in rows |-> table[r]]

\* DELETE FROM <table> WHERE _patchedAt < ?
deleteOldPatches(table, timestamp) ==
  LET rows == {r \in BagToSet(table) : ~(r._patchedAt < timestamp)}
  IN  [r \in rows |-> table[r]]

\* _deleteOldPatches: every table of tableStatements; before the statements
\* are prepared tableStatements._.deleteOldPatches is undefined and the call
\* throws
_deleteOldPatches(s) ==
  LET _oldestPatchTimestamp == from(s.wall - MAX_PATCH_RETENTION_MS, 0)
  IN  IF PENDING_PATCHES_TABLE_NAME \notin s.tableStatements THEN s
      ELSE [s EXCEPT
              !.pending_patches = deleteOldPatches(@, _oldestPatchTimestamp),
              !.testA_patches = IF UserTable \in s.tableStatements
                                THEN deleteOldPatches(@, _oldestPatchTimestamp)
                                ELSE @]

\* the hourly branch of _heartBeat: the sweep, then a persistent ping
_heartBeatHourly(s) ==
  IF PENDING_PATCHES_TABLE_NAME \notin s.tableStatements THEN Begin(s)
  ELSE _generatePingStatMessage(_deleteOldPatches(s), TRUE)

(* ------------------------------ migrate ------------------------------- *)
\* A migration script is one statement: it creates a table, drops one, is
\* empty or is not SQL.  _testSchema creates testA together with testA_patches.
NoScript == [op |-> "none", table |-> ""]
_testSchema == [op |-> "create", table |-> UserTable]
InvalidScript == [op |-> "invalid", table |-> ""]

\* db.exec(sql) on a catalog holding the tables: whether it throws, and the
\* catalog after it
execThrows(tables, sql) ==
  CASE sql.op = "create" -> sql.table \in tables
    [] sql.op = "drop" -> sql.table \notin tables
    [] sql.op = "invalid" -> TRUE
    [] OTHER -> FALSE

exec(tables, sql) ==
  CASE sql.op = "create" -> tables \cup {sql.table}
    [] sql.op = "drop" -> tables \ {sql.table}
    [] OTHER -> tables

\* the rows of migrations in descending order of id
RECURSIVE _existingMigrationsDescending(_)
_existingMigrationsDescending(rows) ==
  IF rows = {} THEN << >>
  ELSE LET r == CHOOSE x \in rows : \A y \in rows : x.id >= y.id
       IN  <<r>> \o _existingMigrationsDescending(rows \ {r})

\* SELECT * FROM migrations ORDER BY id
RECURSIVE _existingMigrations(_)
_existingMigrations(rows) ==
  IF rows = {} THEN << >>
  ELSE LET r == CHOOSE x \in rows : \A y \in rows : x.id <= y.id
       IN  <<r>> \o _existingMigrations(rows \ {r})

_lastAppliedId(rows) ==
  IF rows = {} THEN 0
  ELSE _existingMigrations(rows)[Len(_existingMigrations(rows))].id

\* the database inside the transaction: the catalog, the rows of migrations,
\* the scripts run so far and whether one of them threw
Transaction(s) == [schema |-> s.schema, migrations |-> s.migrations,
                   ran |-> << >>, threw |-> FALSE]

\* the downgrade loop from i down to _targetId + 1
RECURSIVE downgrade(_, _, _, _)
downgrade(db, existing, i, _targetId) ==
  IF db.threw \/ i <= _targetId THEN db
  ELSE IF i \notin DOMAIN existing THEN [db EXCEPT !.threw = TRUE]
  ELSE LET migration == existing[i]
           ran == Append(db.ran, [id |-> i, sql |-> migration.down])
       IN  IF execThrows(db.schema, migration.down)
           THEN [db EXCEPT !.threw = TRUE, !.ran = ran]
           ELSE downgrade([db EXCEPT !.schema = exec(@, migration.down),
                                     !.migrations = {r \in @ : r.id # i},
                                     !.ran = ran],
                          existing, i - 1, _targetId)

\* the upgrade loop from i up to _targetId
RECURSIVE upgrade(_, _, _, _)
upgrade(db, appMigrations, i, _targetId) ==
  IF db.threw \/ i > _targetId THEN db
  ELSE LET migration == appMigrations[i]
           ran == Append(db.ran, [id |-> i, sql |-> migration.up])
       IN  IF execThrows(db.schema, migration.up)
           THEN [db EXCEPT !.threw = TRUE, !.ran = ran]
           ELSE upgrade([db EXCEPT !.schema = exec(@, migration.up),
                                   !.migrations = @ \cup {[id |-> i, up |-> migration.up,
                                                           down |-> migration.down]},
                                   !.ran = ran],
                        appMigrations, i + 1, _targetId)

\* the body of db.transaction(...) in migrate
transaction(s, appMigrations) ==
  LET _targetId == Len(appMigrations)
      last == _lastAppliedId(s.migrations)
  IN  IF _targetId < last
      THEN downgrade(Transaction(s), _existingMigrations(s.migrations), last, _targetId)
      ELSE IF _targetId > last
      THEN upgrade(Transaction(s), appMigrations, last + 1, _targetId)
      ELSE Transaction(s)

\* whether migrate(appMigrations) throws
migrateThrows(s, appMigrations) == transaction(s, appMigrations).threw

\* what migrate(appMigrations) returns when it does not throw
migrateResult(s, appMigrations) ==
  [currentVersion |-> Len(appMigrations),
   previousVersion |-> _lastAppliedId(s.migrations)]

\* _prepareAllStatements: new statement objects; a flush scheduled on the old
\* object of testA stays scheduled with the timestamp that object holds
_prepareAllStatements(s) ==
  [s EXCEPT !.tableStatements = {PENDING_PATCHES_TABLE_NAME}
                                  \cup (IF UserTable \in s.schema THEN {UserTable} ELSE {}),
            !.orphanFlushes = IF UserTable \in s.schema /\ s.flushScheduled
                              THEN @ \cup {s.debounceFromTimestamp} ELSE @,
            !.flushScheduled = IF UserTable \in s.schema THEN FALSE ELSE @,
            !.debounceFromTimestamp = IF UserTable \in s.schema THEN MAX_SAFE_INTEGER ELSE @]

\* a migrate that runs its statements outside a transaction
migrateWithoutTransaction(s, appMigrations) ==
  LET s0 == Begin(s)
      s1 == [s0 EXCEPT !.dbVersion = Len(appMigrations)]
      db == transaction(s0, appMigrations)
  IN  IF db.threw
      THEN [s1 EXCEPT !.migrations = db.migrations, !.schema = db.schema]
      ELSE _initPeerSequence(_prepareAllStatements(
             [s1 EXCEPT !.migrations = db.migrations, !.schema = db.schema]))

\* migrate(appMigrations): dbVersion is assigned before the transaction; a
\* transaction that throws is rolled back and the call throws with it
migrate(s, appMigrations) ==
  LET s0 == Begin(s)
      s1 == [s0 EXCEPT !.dbVersion = Len(appMigrations)]
      db == transaction(s0, appMigrations)
  IN  IF db.threw
      THEN s1
      ELSE _initPeerSequence(_prepareAllStatements(
             [s1 EXCEPT !.migrations = db.migrations, !.schema = db.schema]))

(* ------------------------------- peers -------------------------------- *)
NewPeerStat == [i \in 0..4 |-> 0]

\* an off that leaves the listener attached
offLeavingListener(s, remotePeerId) == s

\* peerSockets[remotePeerId]?.off?.('message', _onMessage): one registration
\* of the listener is removed from the socket the peer has, if it has one
off(s, remotePeerId) ==
  IF remotePeerId \in DOMAIN s.peerSockets
  THEN [s EXCEPT !.listeners = @ (-) SetToBag({s.peerSockets[remotePeerId]})]
  ELSE s

\* socket?.on?.('message', _onMessage): one more registration
on(s, socket) == [s EXCEPT !.listeners = @ (+) SetToBag({socket})]

\* an addRemotePeer that marks the peer not synced on every call
addRemotePeerAlwaysNotSynced(s, remotePeerId, socket) ==
  IF remotePeerId = s.myPeerId THEN s
  ELSE on([off(s, remotePeerId) EXCEPT
          !.nbConnectedPeers = IF remotePeerId \in DOMAIN s.peerStats THEN @ ELSE @ + 1,
          !.peerStats = IF remotePeerId \in DOMAIN @ THEN @
                        ELSE With(@, remotePeerId, NewPeerStat),
          !.peerStartedNotSynced = @ \cup {remotePeerId},
          !.peerSockets = With(@, remotePeerId, socket)], socket)

addRemotePeer(s, remotePeerId, socket) ==
  IF remotePeerId = s.myPeerId THEN s
  ELSE on([off(s, remotePeerId) EXCEPT
          !.nbConnectedPeers = IF remotePeerId \in DOMAIN s.peerStats THEN @ ELSE @ + 1,
          !.peerStats = IF remotePeerId \in DOMAIN @ THEN @
                        ELSE With(@, remotePeerId, NewPeerStat),
          !.peerStartedNotSynced = IF remotePeerId \in DOMAIN s.peerStats THEN @
                                   ELSE @ \cup {remotePeerId},
          !.peerSockets = With(@, remotePeerId, socket)], socket)

\* closeRemotePeer(remotePeerId): the counter goes down on every call
closeRemotePeer(s, remotePeerId) ==
  [off(s, remotePeerId) EXCEPT !.nbConnectedPeers = @ - 1,
                               !.peerSockets = Without(@, remotePeerId)]

pauseRemotePeer(s, remotePeerId) ==
  [off(s, remotePeerId) EXCEPT !.peerSockets = Without(@, remotePeerId)]

\* onSynced(peerId); numberKey is FALSE when the caller passes the key of a
\* for...in loop, a string, which the Set of numbers never holds
onSynced(s, peerId, numberKey) ==
  IF s.peerStartedNotSynced = {} THEN s
  ELSE IF /\ numberKey
          /\ peerId \in s.peerStartedNotSynced
          /\ peerId \in DOMAIN s.peerStats
          /\ s.peerStats[peerId][LAST_MESSAGE_TIMETSAMP] > 0
       THEN [s EXCEPT !.peerStartedNotSynced = @ \ {peerId},
                      !.synced = Append(@, peerId)]
       ELSE s

\* a tracking that opens a stat vector for a peer it does not know
_detectMissingSequenceIdsOfAnyPeer(s, msg) ==
  LET s0 == receive(s, msg.at)
      s1 == [s0 EXCEPT !.peerStats = IF msg.peer \in DOMAIN @ THEN @
                                     ELSE With(@, msg.peer, NewPeerStat)]
      _peerStat == s1.peerStats[msg.peer]
      _sequenceGap == msg.seq - _peerStat[GUARANTEED_CONTIGUOUS_SEQUENCE_ID]
      a == [_peerStat EXCEPT ![LAST_MESSAGE_TIMETSAMP] = s1.wall]
      b == IF _sequenceGap = 1
           THEN [a EXCEPT ![GUARANTEED_CONTIGUOUS_SEQUENCE_ID] = msg.seq,
                          ![GUARANTEED_CONTIGUOUS_PATCH_AT_TIMESTAMP] = msg.at]
           ELSE a
      s2 == [s1 EXCEPT !.peerStats[msg.peer] = b]
      s3 == IF _sequenceGap = 1 THEN onSynced(s2, msg.peer, TRUE) ELSE s2
      c == s3.peerStats[msg.peer]
  IN  IF msg.seq > c[LAST_SEQUENCE_ID]
      THEN [s3 EXCEPT !.peerStats[msg.peer] =
                         [c EXCEPT ![LAST_SEQUENCE_ID] = msg.seq,
                                   ![LAST_PATCH_AT_TIMESTAMP] = msg.at]]
      ELSE s3

_detectMissingSequenceIds(s, msg) ==
  LET s1 == receive(s, msg.at)
  IN  IF msg.peer \notin DOMAIN s1.peerStats THEN s1
      ELSE
        LET _peerStat == s1.peerStats[msg.peer]
            _sequenceGap == msg.seq - _peerStat[GUARANTEED_CONTIGUOUS_SEQUENCE_ID]
            a == [_peerStat EXCEPT ![LAST_MESSAGE_TIMETSAMP] = s1.wall]
            b == IF _sequenceGap = 1
                 THEN [a EXCEPT ![GUARANTEED_CONTIGUOUS_SEQUENCE_ID] = msg.seq,
                                ![GUARANTEED_CONTIGUOUS_PATCH_AT_TIMESTAMP] = msg.at]
                 ELSE a
            s2 == [s1 EXCEPT !.peerStats[msg.peer] = b]
            s3 == IF _sequenceGap = 1 THEN onSynced(s2, msg.peer, TRUE) ELSE s2
            c == s3.peerStats[msg.peer]
        IN  IF msg.seq > c[LAST_SEQUENCE_ID]
            THEN [s3 EXCEPT !.peerStats[msg.peer] =
                               [c EXCEPT ![LAST_SEQUENCE_ID] = msg.seq,
                                         ![LAST_PATCH_AT_TIMESTAMP] = msg.at]]
            ELSE s3

\* a debounce that keeps the timestamp of the first patch of a burst
debounceFromFirstPatch(s, patch) ==
  IF s.debounceFromTimestamp = MAX_SAFE_INTEGER
  THEN [s EXCEPT !.debounceFromTimestamp = patch.at, !.flushScheduled = TRUE]
  ELSE s

\* the debounce of _onPatchReceivedFromPeers
debounce(s, patch) ==
  LET s1 == IF s.debounceFromTimestamp = MAX_SAFE_INTEGER
            THEN [s EXCEPT !.debounceFromTimestamp = @ - 1, !.flushScheduled = TRUE]
            ELSE s
  IN  IF patch.at < s1.debounceFromTimestamp
      THEN [s1 EXCEPT !.debounceFromTimestamp = patch.at]
      ELSE s1

\* a handler that stages a patch of another version without looking at its
\* sequence id
_onPatchReceivedStagingOnly(s, patch) ==
  IF patch.peer = s.myPeerId THEN s
  ELSE IF patch.ver # s.dbVersion
  THEN IF PENDING_PATCHES_TABLE_NAME \in s.tableStatements
       THEN savePending(s, patch)
       ELSE s
  ELSE IF ~HasStatement(s, patch.tab) THEN s
  ELSE IF patch.tab = PENDING_PATCHES_TABLE_NAME
  THEN IF PENDING_PATCHES_TABLE_NAME \in s.tableStatements
       THEN _detectMissingSequenceIds(savePending(s, patch), patch)
       ELSE s
  ELSE IF savePatchThrows(patch) THEN s
  ELSE debounce(_detectMissingSequenceIds(savePatch(s, patch), patch), patch)

_onPatchReceivedFromPeers(s, patch) ==
  IF patch.peer = s.myPeerId THEN s
  ELSE IF patch.ver # s.dbVersion
  THEN IF PENDING_PATCHES_TABLE_NAME \in s.tableStatements
       THEN _detectMissingSequenceIds(savePending(s, patch), patch)
       ELSE s                      \* savePatch is undefined: the handler throws
  ELSE IF ~HasStatement(s, patch.tab) THEN s
  ELSE IF patch.tab = PENDING_PATCHES_TABLE_NAME
  THEN IF PENDING_PATCHES_TABLE_NAME \in s.tableStatements
       THEN _detectMissingSequenceIds(savePending(s, patch), patch)
       ELSE s
  ELSE IF savePatchThrows(patch) THEN s
  ELSE debounce(_detectMissingSequenceIds(savePatch(s, patch), patch), patch)

\* the setImmediate callback of the debounce
flush(s, scan) ==
  [applyPatches(s, scan) EXCEPT !.debounceFromTimestamp = MAX_SAFE_INTEGER,
                                !.flushScheduled = FALSE]

\* the same callback on a statement object that migrate has replaced
flushOrphan(s, fromTimestamp, scan) ==
  [applyPatches(s, scan) EXCEPT !.orphanFlushes = @ \ {fromTimestamp}]

(* ------------------- gap detection and retransmission ----------------- *)
\* the rows the UNION ALL of the _generateListSequenceIdsQuery queries returns
ListedKeys(s, fromTimestamp) ==
  {k \in AllPatchKeys(s) : k.patchedAt >= fromTimestamp /\ k.peerId # s.myPeerId}

\* lead(sequenceId) OVER (PARTITION BY peerId ORDER BY sequenceId) - sequenceId - 1
\* of the last row holding k's sequence id (0 when no row follows)
nbMissingSequenceIds(keys, k) ==
  LET later == {j.sequenceId : j \in {i \in keys : i.peerId = k.peerId
                                                  /\ i.sequenceId > k.sequenceId}}
  IN  IF later = {} THEN 0 ELSE Min(later) - k.sequenceId - 1

RECURSIVE BySequenceId(_)
BySequenceId(S) ==
  IF S = {} THEN << >>
  ELSE LET k == CHOOSE x \in S : \A y \in S : x.sequenceId <= y.sequenceId
       IN  <<k>> \o BySequenceId(S \ {k})

RECURSIVE ByPeer(_, _)
ByPeer(peers, S) ==
  IF peers = << >> THEN << >>
  ELSE BySequenceId({k \in S : k.peerId = Head(peers)}) \o ByPeer(Tail(peers), S)

\* globalStatements.listMissingSequenceIds(fromTimestamp): ORDER BY peerId, sequenceId
listMissingSequenceIds(s, fromTimestamp) ==
  LET keys == ListedKeys(s, fromTimestamp)
      gaps == {[peerId |-> k.peerId, sequenceId |-> k.sequenceId,
                patchedAt |-> k.patchedAt,
                nbMissingSequenceIds |-> nbMissingSequenceIds(keys, k)] :
                 k \in {i \in keys : nbMissingSequenceIds(keys, i) > 0}}
  IN  ByPeer(Ascending({g.peerId : g \in gaps}), gaps)

\* what the first loop of _getMissingPatches does with one entry
requestMissing(s, _missing, first) ==
  LET s1 == IF first
            THEN [s EXCEPT
                    !.peerStats[_missing.peerId][GUARANTEED_CONTIGUOUS_PATCH_AT_TIMESTAMP] =
                        _missing.patchedAt,
                    !.peerStats[_missing.peerId][GUARANTEED_CONTIGUOUS_SEQUENCE_ID] =
                        _missing.sequenceId]
            ELSE s
  IN  IF _missing.peerId \in DOMAIN s1.peerSockets
      THEN _sendMessageToPeer(s1, _missing.peerId,
             [type |-> MISSING_PATCH, peer |-> _missing.peerId,
              minSeq |-> _missing.sequenceId + 1,
              maxSeq |-> _missing.sequenceId + _missing.nbMissingSequenceIds,
              forPeer |-> s1.myPeerId])
      ELSE s1

RECURSIVE RequestEach(_, _, _)
RequestEach(s, _missingSequenceIds, _peerWithMissingIds) ==
  IF _missingSequenceIds = << >>
  THEN [state |-> s, _peerWithMissingIds |-> _peerWithMissingIds]
  ELSE LET _missing == Head(_missingSequenceIds)
           first == /\ _missing.peerId \in DOMAIN s.peerStats
                    /\ _missing.peerId \notin _peerWithMissingIds
       IN  RequestEach(requestMissing(s, _missing, first), Tail(_missingSequenceIds),
                       IF first THEN _peerWithMissingIds \cup {_missing.peerId}
                       ELSE _peerWithMissingIds)

\* what the second loop does with a peer that has no missing entry
markUpToDate(s, _peerId) ==
  onSynced([s EXCEPT
              !.peerStats[_peerId][GUARANTEED_CONTIGUOUS_PATCH_AT_TIMESTAMP] =
                  s.peerStats[_peerId][LAST_PATCH_AT_TIMESTAMP],
              !.peerStats[_peerId][GUARANTEED_CONTIGUOUS_SEQUENCE_ID] =
                  s.peerStats[_peerId][LAST_SEQUENCE_ID]],
           _peerId, FALSE)

RECURSIVE MarkEach(_, _)
MarkEach(s, peers) ==
  IF peers = << >> THEN s ELSE MarkEach(markUpToDate(s, Head(peers)), Tail(peers))

\* before _prepareAllStatements listMissingSequenceIds is undefined: the call throws
_getMissingPatches(s, fromTimestamp) ==
  LET r == RequestEach(s, listMissingSequenceIds(s, fromTimestamp), {})
  IN  IF PENDING_PATCHES_TABLE_NAME \notin s.tableStatements THEN s
      ELSE MarkEach(r.state, Ascending(DOMAIN r.state.peerStats \ r._peerWithMissingIds))

\* the peers behind their last sequence id
Lagging(s) ==
  {p \in DOMAIN s.peerStats :
     s.peerStats[p][GUARANTEED_CONTIGUOUS_SEQUENCE_ID] < s.peerStats[p][LAST_SEQUENCE_ID]}

_detectAndRequestMissingPatches(s) ==
  LET s0 == Begin(s)
  IN  IF Lagging(s0) = {} THEN s0
      ELSE _getMissingPatches(s0,
             Min({s0.peerStats[p][GUARANTEED_CONTIGUOUS_PATCH_AT_TIMESTAMP] :
                    p \in Lagging(s0)}))

\* the rows of testA_patches of peerId in minSeq..maxSeq as PATCH envelopes
\* (getPatchFromColumnSQL: 'ver' is the dbVersion the statement was prepared
\* with, delta holds every column of the table), a row stored twice twice
ShadowEnvelopes(s, peerId, minSeq, maxSeq) ==
  LET rows == {x \in BagToSet(s.testA_patches) :
                 x._peerId = peerId /\ x._sequenceId >= minSeq /\ x._sequenceId <= maxSeq}
      env(r) == [type |-> PATCH, at |-> r._patchedAt, peer |-> r._peerId,
                 seq |-> r._sequenceId, ver |-> s.dbVersion, tab |-> UserTable,
                 delta |-> [k \in Columns \cup {"id"} |-> r[k]]]
  IN  [e \in {env(r) : r \in rows} |->
         s.testA_patches[CHOOSE r \in rows : env(r) = e]]

\* the same for the rows of pending_patches
PendingEnvelopes(s, peerId, minSeq, maxSeq) ==
  LET rows == {x \in BagToSet(s.pending_patches) :
                 x._peerId = peerId /\ x._sequenceId >= minSeq /\ x._sequenceId <= maxSeq}
      env(r) == [type |-> PATCH, at |-> r._patchedAt, peer |-> r._peerId,
                 seq |-> r._sequenceId, ver |-> r.patchVersion, tab |-> r.tableName,
                 delta |-> r.delta]
  IN  [e \in {env(r) : r \in rows} |->
         s.pending_patches[CHOOSE r \in rows : env(r) = e]]

\* the UNION ALL of the two
StoredEnvelopes(s, peerId, minSeq, maxSeq) ==
  PendingEnvelopes(s, peerId, minSeq, maxSeq) (+) ShadowEnvelopes(s, peerId, minSeq, maxSeq)

\* ORDER BY _sequenceId
RECURSIVE BySeq(_)
BySeq(bag) ==
  IF DOMAIN bag = {} THEN << >>
  ELSE LET m == CHOOSE x \in DOMAIN bag : \A y \in DOMAIN bag : x.seq <= y.seq
       IN  <<m>> \o BySeq(bag (-) SetToBag({m}))

\* globalStatements.getPatchFromColumn(peer, min, max): _plan.get, the first
\* row only, when min = max, and _plan.all otherwise
getPatchFromColumn(s, peerId, minSequenceId, maxSequenceId) ==
  LET all == BySeq(StoredEnvelopes(s, peerId, minSequenceId, maxSequenceId))
  IN  IF minSequenceId = maxSequenceId /\ all # << >> THEN <<Head(all)>> ELSE all

RECURSIVE SendAll(_, _, _)
SendAll(s, peerId, msgs) ==
  IF msgs = << >> THEN s
  ELSE SendAll(_sendMessageToPeer(s, peerId, Head(msgs)), peerId, Tail(msgs))

\* before _prepareAllStatements getPatchFromColumn is undefined: the call throws
_onRequestForMissingPatchFromPeers(s, msg) ==
  IF PENDING_PATCHES_TABLE_NAME \notin s.tableStatements THEN s
  ELSE IF msg.forPeer \in DOMAIN s.peerSockets
  THEN SendAll(s, msg.forPeer, getPatchFromColumn(s, msg.peer, msg.minSeq, msg.maxSeq))
  ELSE s

\* a dispatcher whose PATCH handler takes every patch for a foreign one
_onMessageWithoutLoopbackFilter(s, msg) ==
  LET s0 == Begin(s)
  IN  CASE msg.type = PATCH ->
             [_onPatchReceivedFromPeers([s0 EXCEPT !.myPeerId = 0], msg)
                EXCEPT !.myPeerId = s.myPeerId]
        [] msg.type = PING -> _detectMissingSequenceIds(s0, msg)
        [] msg.type = MISSING_PATCH -> _onRequestForMissingPatchFromPeers(s0, msg)
        [] OTHER -> s0

_onMessage(s, msg) ==
  LET s0 == Begin(s)
  IN  CASE msg.type = PATCH -> _onPatchReceivedFromPeers(s0, msg)
        [] msg.type = PING -> _detectMissingSequenceIds(s0, msg)
        [] msg.type = MISSING_PATCH -> _onRequestForMissingPatchFromPeers(s0, msg)
        [] OTHER -> s0

\* a socket emits 'message': every registration of the listener runs
RECURSIVE emitTimes(_, _, _)
emitTimes(s, k, msg) ==
  IF k = 0 THEN s ELSE emitTimes(_onMessage(s, msg), k - 1, msg)

emit(s, socket, msg) == emitTimes(s, CopiesIn(socket, s.listeners), msg)

(* ------------------------------ backoff ------------------------------- *)
\* the record kept of a backoff call: polls are the calls of fn, [at, result];
\* waits are the delays given to setTimeout, [at, delay]; done are the calls
\* of onDone, [success, polls], polls being the number of polls made by then;
\* timer is the pending timeout, if one is
NoTimer == [pending |-> FALSE]
NewBackoff(maxTime, delay, start) ==
  [called |-> TRUE, maxTime |-> maxTime, delay |-> delay, start |-> start,
   polls |-> << >>, waits |-> << >>, done |-> << >>, timer |-> NoTimer]

onDone(b, success) ==
  [b EXCEPT !.done = Append(@, [success |-> success, polls |-> Len(b.polls)])]

\* setTimeout(() => backoff(...), delay)
setTimeout(b, delay, now) ==
  [b EXCEPT !.waits = Append(@, [at |-> now, delay |-> delay]),
            !.timer = [pending |-> TRUE, delay |-> delay, setAt |-> now]]

\* backoff(fn, onDone, maxTime, delay, start): one run of the function, which
\* polls fn once; fn is the value this poll returns
backoff(s, fn, maxTime, delay, start) ==
  LET b == [s.backoffs EXCEPT !.polls = Append(@, [at |-> s.wall, result |-> fn]),
                              !.timer = NoTimer]
  IN  [s EXCEPT !.backoffs =
         IF fn = TRUE THEN onDone(b, TRUE)
         ELSE IF s.wall - start >= maxTime THEN onDone(b, FALSE)
         ELSE setTimeout(b, delay, s.wall)]

\* the callback of the timeout: the next run, with the delay doubled and
\* capped by what is left of maxTime
backoffTimeout(s, fn) ==
  LET b == s.backoffs
  IN  backoff(s, fn, b.maxTime,
              Min({b.timer.delay * 2, b.maxTime - (s.wall - b.start)}), b.start)

(* ------------------------------ restart ------------------------------- *)
\* The process stops and the module is constructed again on the same database
\* file: the closure state and the clock are new, the tables stay.
Restart(s) ==
  [Begin(s) EXCEPT
     !.dbVersion = 1, !.lastSequenceId = -1, !.lastPatchAtTimestamp = -1,
     !.highestRemoteHLC = 0, !.counter = 0,
     !.peerSockets = << >>, !.peerStats = << >>, !.peerStartedNotSynced = {},
     !.listeners = EmptyBag, !.nbConnectedPeers = 0, !.backoffs = NoBackoff,
     !.tableStatements = {}, !.debounceFromTimestamp = MAX_SAFE_INTEGER,
     !.flushScheduled = FALSE, !.orphanFlushes = {}, !.synced = << >>]

(* ------------------------------- inputs ------------------------------- *)
\* the migrations of the tests of index.js: { up : _testSchema, down : '' },
\* followed by empty ones
TestMigrations(k) ==
  [i \in 1..k |-> IF i = 1 THEN [up |-> _testSchema, down |-> NoScript]
                  ELSE [up |-> NoScript, down |-> NoScript]]

Unknown == "unknownTable"
\* the connections peer p opens to a node, one socket object each
SocketsOf(p) == {"s" \o ToString(p) \o "a", "s" \o ToString(p) \o "b"}
Sockets == {"s1"}
\* rowPatch arguments: a full row, a partial row, a row without its key
LocalDeltas == {[id |-> "r1", name |-> "a"], [id |-> "r1", deletedAt |-> "d"],
                [name |-> "b"]}
RemoteDeltas == {[id |-> "r1", name |-> "b"], [id |-> "r1", deletedAt |-> "e"]}
Walls == 1..MaxWall

\* the patch a producer makes next, at one of the times walls: its sequence
\* ids are dense, its HLC does not go back
NewPatches(p, deltas, vers, walls) ==
  {[type |-> PATCH, at |-> from(w, 0), peer |-> p, seq |-> Len(remote[p]) + 1,
    ver |-> v, tab |-> UserTable, delta |-> d] :
      w \in {x \in walls : \A i \in DOMAIN remote[p] : remote[p][i].at <= from(x, 0)},
      d \in deltas, v \in vers}

\* rowPatch arguments with and without a key that is no column of testA
WireDeltas == {[id |-> "r1", name |-> "a"],
               [id |-> "r1", name |-> "a", unknownColumn |-> "unknownValue"]}

\* PATCH messages that carry the node's own peer id
Loopbacks(n) ==
  {[type |-> PATCH, at |-> from(w, 0), peer |-> n, seq |-> seq, ver |-> v,
    tab |-> UserTable, delta |-> d] :
      w \in Walls, seq \in 1..(MaxSeq + 1), v \in 1..MaxVersion, d \in RemoteDeltas}

\* the migrations of the tests of migrate: tables created and dropped, a
\* script that is not SQL, a down script that drops a table nobody created,
\* an up script without its down script
Create(table) == [op |-> "create", table |-> table]
Drop(table) == [op |-> "drop", table |-> table]
AppMigrations ==
  {[up |-> Create("test1"), down |-> Drop("test1")],
   [up |-> Create("test2"), down |-> Drop("test2")],
   [up |-> InvalidScript, down |-> Drop("test2")],
   [up |-> NoScript, down |-> Drop("test2")],
   [up |-> Create("test1"), down |-> NoScript],
   [up |-> _testSchema, down |-> NoScript]}

\* the lists an application passes to migrate
AppMigrationLists == UNION {[1..k -> AppMigrations] : k \in 0..MaxVersion}

\* MISSING_PATCH requests for the patches of peers, asked by forPeers
Requests(peers, forPeers) ==
  {[type |-> MISSING_PATCH, peer |-> p, minSeq |-> a, maxSeq |-> b, forPeer |-> f] :
     p \in peers, a \in 1..MaxRemoteSeq, b \in 1..MaxRemoteSeq, f \in forPeers}

\* the PING a producer sent when its last sequence id was k
PingOf(p, k) ==
  [type |-> PING, at |-> IF k = 0 THEN 0 ELSE remote[p][k].at, peer |-> p, seq |-> k,
   ver |-> 1, tab |-> PENDING_PATCHES_TABLE_NAME, delta |-> << >>]

(* ------------------------------- state -------------------------------- *)
Init ==
  /\ dbVersion = [n \in Nodes |-> 1]
  /\ lastSequenceId = [n \in Nodes |-> -1]
  /\ lastPatchAtTimestamp = [n \in Nodes |-> -1]
  /\ highestRemoteHLC = [n \in Nodes |-> 0]
  /\ counter = [n \in Nodes |-> 0]
  /\ wall = [n \in Nodes |-> 1]
  /\ peerSockets = [n \in Nodes |-> << >>]
  /\ peerStats = [n \in Nodes |-> << >>]
  /\ peerStartedNotSynced = [n \in Nodes |-> {}]
  /\ listeners = [n \in Nodes |-> EmptyBag]
  /\ nbConnectedPeers = [n \in Nodes |-> 0]
  /\ backoffs = [n \in Nodes |-> NoBackoff]
  /\ tableStatements = [n \in Nodes |-> {}]
  /\ debounceFromTimestamp = [n \in Nodes |-> MAX_SAFE_INTEGER]
  /\ flushScheduled = [n \in Nodes |-> FALSE]
  /\ orphanFlushes = [n \in Nodes |-> {}]
  /\ migrations = [n \in Nodes |-> {}]
  /\ schema = [n \in Nodes |-> {}]
  /\ testA_patches = [n \in Nodes |-> EmptyBag]
  /\ pending_patches = [n \in Nodes |-> EmptyBag]
  /\ testA = [n \in Nodes |-> {}]
  /\ sent = [n \in Nodes |-> << >>]
  /\ cbResult = [n \in Nodes |-> NoCallback]
  /\ steps = [n \in Nodes |-> << >>]
  /\ synced = [n \in Nodes |-> << >>]
  /\ remote = [p \in Producers |-> << >>]
  /\ net = {}

(* ------------------------------ actions ------------------------------- *)
Tick(n) ==
  /\ wall[n] < MaxWall
  /\ wall' = [wall EXCEPT ![n] = @ + 1]
  /\ UNCHANGED <<dbVersion, lastSequenceId, lastPatchAtTimestamp, highestRemoteHLC,
                 counter, peerSockets, peerStats, peerStartedNotSynced,
                 listeners, nbConnectedPeers, backoffs, tableStatements,
                 debounceFromTimestamp, flushScheduled,
                 orphanFlushes, migrations, schema, testA_patches, pending_patches,
                 testA, sent, cbResult, steps, synced, remote, net>>

\* the wall clock of node n is set back (NTP step, manual change)
ClockBack(n) ==
  /\ wall[n] > 1
  /\ wall' = [wall EXCEPT ![n] = @ - 1]
  /\ UNCHANGED <<dbVersion, lastSequenceId, lastPatchAtTimestamp, highestRemoteHLC,
                 counter, peerSockets, peerStats, peerStartedNotSynced,
                 listeners, nbConnectedPeers, backoffs, tableStatements,
                 debounceFromTimestamp, flushScheduled,
                 orphanFlushes, migrations, schema, testA_patches, pending_patches,
                 testA, sent, cbResult, steps, synced, remote, net>>

Migrate(n, targets) ==
  /\ \E _targetId \in targets : Commit(n, migrate(St(n), TestMigrations(_targetId)))
  /\ UNCHANGED <<remote, net>>

\* migrate called with any of the lists
MigrateApp(n) ==
  /\ \E appMigrations \in AppMigrationLists : Commit(n, migrate(St(n), appMigrations))
  /\ UNCHANGED <<remote, net>>

\* the application starts: its one migrate call on a new database
Start(n) ==
  /\ migrations[n] = {}
  /\ Migrate(n, {1})

Upsert(n, tables, deltas, callbacks) ==
  /\ lastSequenceId[n] < MaxSeq
  /\ counter[n] < MaxCounter
  /\ \E tableName \in tables, rowPatch \in deltas, hasCallback \in callbacks :
       \E scan \in upsertScans(St(n), tableName, rowPatch) :
         Commit(n, upsert(St(n), tableName, rowPatch, hasCallback, scan))
  /\ UNCHANGED <<remote, net>>

PersistPing(n) ==
  /\ lastSequenceId[n] < MaxSeq
  /\ counter[n] < MaxCounter
  /\ Commit(n, _generatePingStatMessage(St(n), TRUE))
  /\ UNCHANGED <<remote, net>>

AddRemotePeer(n, peers) ==
  /\ \E p \in peers, socket \in Sockets :
       Commit(n, addRemotePeer(Begin(St(n)), p, socket))
  /\ UNCHANGED <<remote, net>>

\* addRemotePeer with a socket of the peer it names
Connect(n, peers) ==
  /\ \E p \in peers : \E socket \in SocketsOf(p) :
       Commit(n, addRemotePeer(Begin(St(n)), p, socket))
  /\ UNCHANGED <<remote, net>>

CloseRemotePeer(n) ==
  /\ nbConnectedPeers[n] > -MaxClosed
  /\ \E p \in DOMAIN peerSockets[n] : Commit(n, closeRemotePeer(Begin(St(n)), p))
  /\ UNCHANGED <<remote, net>>

\* closeRemotePeer for a peer that has no socket: never added, paused, or
\* closed before
CloseAgain(n, peers) ==
  /\ nbConnectedPeers[n] > -MaxClosed
  /\ \E p \in peers \ DOMAIN peerSockets[n] :
       Commit(n, closeRemotePeer(Begin(St(n)), p))
  /\ UNCHANGED <<remote, net>>

PauseRemotePeer(n) ==
  /\ \E p \in DOMAIN peerSockets[n] : Commit(n, pauseRemotePeer(Begin(St(n)), p))
  /\ UNCHANGED <<remote, net>>

\* the application calls backoff(fn, onDone, maxTime, delay)
Backoff(n, maxTimes, delays) ==
  /\ ~backoffs[n].called
  /\ \E maxTime \in maxTimes, delay \in delays, fn \in BOOLEAN :
       Commit(n, backoff([Begin(St(n)) EXCEPT
                            !.backoffs = NewBackoff(maxTime, delay, wall[n])],
                         fn, maxTime, delay, wall[n]))
  /\ UNCHANGED <<remote, net>>

\* the timeout of the backoff fires, at the time it was set for or later
BackoffTimeout(n) ==
  /\ backoffs[n].called
  /\ backoffs[n].timer.pending
  /\ wall[n] >= backoffs[n].timer.setAt + backoffs[n].timer.delay
  /\ \E fn \in BOOLEAN : Commit(n, backoffTimeout(Begin(St(n)), fn))
  /\ UNCHANGED <<remote, net>>

\* a millisecond passes while the timeout is pending; the event loop runs the
\* callback at most MaxLate ms after its time
Elapse(n) ==
  /\ backoffs[n].called
  /\ backoffs[n].timer.pending
  /\ wall[n] < backoffs[n].timer.setAt + backoffs[n].timer.delay + MaxLate
  /\ Commit(n, [St(n) EXCEPT !.wall = @ + 1])
  /\ UNCHANGED <<remote, net>>

RestartNode(n) ==
  /\ Commit(n, Restart(St(n)))
  /\ UNCHANGED <<remote, net>>

\* a producer writes; nobody is listening yet
Produce(p, deltas, vers, walls, max) ==
  /\ Len(remote[p]) < max
  /\ \E patch \in NewPatches(p, deltas, vers, walls) :
       remote' = [remote EXCEPT ![p] = Append(@, patch)]
  /\ UNCHANGED <<dbVersion, lastSequenceId, lastPatchAtTimestamp, highestRemoteHLC,
                 counter, wall, peerSockets, peerStats, peerStartedNotSynced,
                 listeners, nbConnectedPeers, backoffs, tableStatements,
                 debounceFromTimestamp, flushScheduled,
                 orphanFlushes, migrations, schema, testA_patches, pending_patches,
                 testA, sent, cbResult, steps, synced, net>>

\* a producer whose wall clock was set back writes: its patch is stamped
\* below its previous one (create() returns the wall clock as it reads)
ProduceAfterClockBack(p, deltas, max) ==
  /\ Len(remote[p]) < max
  /\ Len(remote[p]) >= 1
  /\ \E w \in Walls, d \in deltas :
       /\ from(w, 0) < remote[p][Len(remote[p])].at
       /\ remote' = [remote EXCEPT ![p] = Append(@,
                       [type |-> PATCH, at |-> from(w, 0), peer |-> p,
                        seq |-> Len(remote[p]) + 1, ver |-> 1, tab |-> UserTable,
                        delta |-> d])]
  /\ UNCHANGED <<dbVersion, lastSequenceId, lastPatchAtTimestamp, highestRemoteHLC,
                 counter, wall, peerSockets, peerStats, peerStartedNotSynced,
                 listeners, nbConnectedPeers, backoffs, tableStatements,
                 debounceFromTimestamp, flushScheduled,
                 orphanFlushes, migrations, schema, testA_patches, pending_patches,
                 testA, sent, cbResult, steps, synced, net>>

\* how many rows node n stores of the patch (p, seq)
Copies(n, p, seq) ==
  LET in(table) == {r \in BagToSet(table) : r._peerId = p /\ r._sequenceId = seq}
  IN  BagCardinality([r \in in(testA_patches[n]) |-> testA_patches[n][r]])
      + BagCardinality([r \in in(pending_patches[n]) |-> pending_patches[n][r]])

\* a PATCH of producer p reaches node n: in any order, at most copies times
ReceivePatch(n, p, copies) ==
  /\ \E i \in DOMAIN remote[p] :
       /\ Copies(n, p, i) < copies
       /\ Commit(n, _onMessage(St(n), remote[p][i]))
  /\ UNCHANGED <<remote, net>>

\* a PING of producer p reaches node n, possibly an old one
ReceivePing(n, p) ==
  /\ \E k \in 0..Len(remote[p]) : Commit(n, _onMessage(St(n), PingOf(p, k)))
  /\ UNCHANGED <<remote, net>>

\* a PATCH with the node's own peer id reaches node n
ReceiveOwn(n) ==
  /\ \E msg \in Loopbacks(n) : Commit(n, _onMessage(St(n), msg))
  /\ UNCHANGED <<remote, net>>

\* a socket of producer p emits a PATCH of p that node n does not hold
SocketMessage(n, p) ==
  /\ \E socket \in SocketsOf(p), i \in DOMAIN remote[p] :
       /\ Copies(n, p, i) = 0
       /\ CopiesIn(socket, listeners[n]) > 0
       /\ Commit(n, emit(St(n), socket, remote[p][i]))
  /\ UNCHANGED <<remote, net>>

\* _deleteOldPatches() is called on node n
DeleteOldPatches(n) ==
  /\ Commit(n, _deleteOldPatches(Begin(St(n))))
  /\ UNCHANGED <<remote, net>>

\* an hour has passed since the last sweep when the heartbeat of node n runs
HourlyHeartBeat(n) ==
  /\ lastSequenceId[n] < MaxSeq
  /\ counter[n] < MaxCounter
  /\ Commit(n, _heartBeatHourly(St(n)))
  /\ UNCHANGED <<remote, net>>

\* the heartbeat of node n sends its non-persistent ping
Ping(n) ==
  /\ Commit(n, _generatePingStatMessage(St(n), FALSE))
  /\ UNCHANGED <<remote, net>>

\* a MISSING_PATCH request reaches node n
ReceiveRequest(n, peers, forPeers) ==
  /\ \E msg \in Requests(peers, forPeers) : Commit(n, _onMessage(St(n), msg))
  /\ UNCHANGED <<remote, net>>

\* the setImmediate callback of the debounce runs
Flush(n, alongIndex) ==
  /\ flushScheduled[n]
  /\ \E scan \in Scans(alongIndex, testA_patches[n], debounceFromTimestamp[n]) :
       Commit(n, flush(Begin(St(n)), scan))
  /\ UNCHANGED <<remote, net>>

FlushOrphan(n) ==
  /\ \E fromTimestamp \in orphanFlushes[n] :
       \E scan \in ScanOrders(testA_patches[n], fromTimestamp) :
         Commit(n, flushOrphan(Begin(St(n)), fromTimestamp, scan))
  /\ UNCHANGED <<remote, net>>

\* the part of _heartBeat that looks for missing patches
DetectAndRequestMissingPatches(n) ==
  /\ Commit(n, _detectAndRequestMissingPatches(St(n)))
  /\ UNCHANGED <<remote, net>>

(* ---- actions on the transport: messages travel through net ---- *)
\* producer p writes a patch and broadcasts it; node n gets it only when its
\* socket to p was open at that time
Emit(p, n) ==
  /\ Len(remote[p]) < MaxRemoteSeq
  /\ \E patch \in NewPatches(p, {[id |-> "r1", name |-> "b"]}, {1}, {Len(remote[p]) + 1}),
        listening \in BOOLEAN :
       /\ remote' = [remote EXCEPT ![p] = Append(@, patch)]
       /\ net' = IF listening THEN net \cup {[to |-> n, msg |-> patch]} ELSE net
  /\ UNCHANGED <<dbVersion, lastSequenceId, lastPatchAtTimestamp, highestRemoteHLC,
                 counter, wall, peerSockets, peerStats, peerStartedNotSynced,
                 listeners, nbConnectedPeers, backoffs, tableStatements,
                 debounceFromTimestamp, flushScheduled,
                 orphanFlushes, migrations, schema, testA_patches, pending_patches,
                 testA, sent, cbResult, steps, synced>>

\* the heartbeat of producer p sends its PING to node n
EmitPing(p, n) ==
  /\ Len(remote[p]) > 0
  /\ net' = net \cup {[to |-> n, msg |-> PingOf(p, Len(remote[p]))]}
  /\ UNCHANGED <<dbVersion, lastSequenceId, lastPatchAtTimestamp, highestRemoteHLC,
                 counter, wall, peerSockets, peerStats, peerStartedNotSynced,
                 listeners, nbConnectedPeers, backoffs, tableStatements,
                 debounceFromTimestamp, flushScheduled,
                 orphanFlushes, migrations, schema, testA_patches, pending_patches,
                 testA, sent, cbResult, steps, synced, remote>>

\* the socket of node n emits 'message'
Deliver(n) ==
  /\ \E m \in net :
       /\ m.to = n
       /\ Commit(n, _onMessage(St(n), m.msg))
       /\ net' = net \ {m}
  /\ UNCHANGED remote

\* the heartbeat of node n looks for missing patches; its requests travel
HeartBeatScan(n) ==
  /\ LET r == _detectAndRequestMissingPatches(St(n))
     IN  /\ Commit(n, r)
         /\ net' = net \cup {[to |-> r.sent[i].to, msg |-> r.sent[i].msg] :
                               i \in DOMAIN r.sent}
  /\ UNCHANGED remote

\* producer p, which holds all its patches and has a socket to the asking
\* node, serves a MISSING_PATCH request
Answer(p) ==
  /\ \E m \in net :
       /\ m.to = p /\ m.msg.type = MISSING_PATCH
       /\ net' = (net \ {m}) \cup
                 {[to |-> m.msg.forPeer, msg |-> remote[p][i]] :
                    i \in {j \in DOMAIN remote[p] : j >= m.msg.minSeq /\ j <= m.msg.maxSeq}}
  /\ UNCHANGED <<dbVersion, lastSequenceId, lastPatchAtTimestamp, highestRemoteHLC,
                 counter, wall, peerSockets, peerStats, peerStartedNotSynced,
                 listeners, nbConnectedPeers, backoffs, tableStatements,
                 debounceFromTimestamp, flushScheduled,
                 orphanFlushes, migrations, schema, testA_patches, pending_patches,
                 testA, sent, cbResult, steps, synced, remote>>

(* --------------- the local write pipeline of one node ----------------- *)
Next ==
  \/ Tick(1)
  \/ Migrate(1, 0..MaxVersion)
  \/ Upsert(1, {UserTable, Unknown}, LocalDeltas, BOOLEAN)
  \/ AddRemotePeer(1, Producers)
  \/ CloseRemotePeer(1)
  \/ PauseRemotePeer(1)

Spec == Init /\ [][Next]_vars

(* ------------- local writes across restarts of one node --------------- *)
NextRestart ==
  \/ Migrate(1, 1..MaxVersion)
  \/ Upsert(1, {UserTable}, {[id |-> "r1", name |-> "a"], [name |-> "b"]}, {TRUE})
  \/ PersistPing(1)
  \/ RestartNode(1)
  \/ Produce(3, {[id |-> "r1", name |-> "b"]}, {1}, Walls, MaxSeq)
  \/ ReceivePatch(1, 3, 1)
  \/ Flush(1, FALSE)
  \/ FlushOrphan(1)

SpecRestart == Init /\ [][NextRestart]_vars

(* ------------- one node following two remote producers --------------- *)
NextGap ==
  \/ Start(1)
  \/ AddRemotePeer(1, Producers)
  \/ Produce(3, {[id |-> "r1", name |-> "b"]}, {1}, {Len(remote[3]) + 1}, MaxRemoteSeq)
  \/ Produce(4, {[id |-> "r1", name |-> "b"]}, {1}, {Len(remote[4]) + 1}, MaxRemoteSeq - 1)
  \/ ReceivePatch(1, 3, 1)
  \/ ReceivePatch(1, 4, 1)
  \/ ReceivePing(1, 3)
  \/ ReceivePing(1, 4)
  \/ DetectAndRequestMissingPatches(1)
  \/ Flush(1, TRUE)
  \/ CloseRemotePeer(1)

SpecGap == Init /\ [][NextGap]_vars

(* ------ one node following a producer whose clock can be set back ------ *)
NextBack ==
  \/ Start(1)
  \/ AddRemotePeer(1, {3})
  \/ Produce(3, {[id |-> "r1", name |-> "b"]}, {1}, Walls, MaxRemoteSeq)
  \/ ProduceAfterClockBack(3, {[id |-> "r1", name |-> "b"]}, MaxRemoteSeq)
  \/ ReceivePatch(1, 3, 1)
  \/ DetectAndRequestMissingPatches(1)
  \/ Flush(1, TRUE)

SpecBack == Init /\ [][NextBack]_vars

(* ------------- two nodes ingesting the same remote patches ------------ *)
NextConv ==
  \/ \E n \in Nodes : Start(n)
  \/ Produce(3, RemoteDeltas, {1}, {Len(remote[3]) + 1}, MaxSeq)
  \/ Produce(4, RemoteDeltas, {1}, {Len(remote[4]) + 1}, MaxSeq - 1)
  \/ \E n \in Nodes, p \in Producers : ReceivePatch(n, p, 1)
  \/ \E n \in Nodes : Flush(n, FALSE)

SpecConv == Init /\ [][NextConv]_vars

(* ------ one node, one producer, a transport that delivers ------------- *)
NextLive ==
  \/ Start(1)
  \/ AddRemotePeer(1, {3})
  \/ Emit(3, 1)
  \/ EmitPing(3, 1)
  \/ Deliver(1)
  \/ HeartBeatScan(1)
  \/ Answer(3)
  \/ Flush(1, TRUE)

\* setInterval runs the heartbeats for ever, the transport delivers what it
\* carries, the producer answers, setImmediate callbacks run
SpecLive ==
  /\ Init /\ [][NextLive]_vars
  /\ WF_vars(HeartBeatScan(1)) /\ WF_vars(EmitPing(3, 1)) /\ WF_vars(Deliver(1))
  /\ WF_vars(Answer(3)) /\ WF_vars(Flush(1, TRUE))

(* ------- one node writing while its clock moves and a peer is ahead ---- *)
NextClock ==
  \/ Start(1)
  \/ Tick(1)
  \/ ClockBack(1)
  \/ Upsert(1, {UserTable}, {[id |-> "r1", name |-> "a"], [id |-> "r1", name |-> "b"]}, {TRUE})
  \/ Produce(3, {[id |-> "r1", deletedAt |-> "e"]}, {1}, Walls, MaxSeq - 1)
  \/ ReceivePatch(1, 3, 1)
  \/ Flush(1, FALSE)

SpecClock == Init /\ [][NextClock]_vars

(* ------- one node staging patches of other schema versions ------------ *)
NextStage ==
  \/ Migrate(1, (_lastAppliedId(migrations[1]) + 1)..MaxVersion)
  \/ AddRemotePeer(1, {3})
  \/ Produce(3, {[id |-> "r1", name |-> "b"]}, 1..MaxVersion, {Len(remote[3]) + 1}, MaxSeq)
  \/ ReceivePatch(1, 3, 1)
  \/ DetectAndRequestMissingPatches(1)
  \/ Flush(1, TRUE)
  \/ FlushOrphan(1)

\* setImmediate callbacks run and setInterval runs the heartbeat for ever;
\* nothing makes a peer send a patch again that the node has stored
SpecStage ==
  /\ Init /\ [][NextStage]_vars
  /\ WF_vars(Flush(1, TRUE)) /\ WF_vars(FlushOrphan(1))
  /\ WF_vars(DetectAndRequestMissingPatches(1))

(* ------- one node serving the patches it stores to those who ask ------- *)
NextServe ==
  \/ Start(1)
  \/ AddRemotePeer(1, Producers)
  \/ PauseRemotePeer(1)
  \/ Produce(3, {[id |-> "r1", name |-> "b"]}, 1..MaxVersion, {Len(remote[3]) + 1}, MaxSeq)
  \/ ReceivePatch(1, 3, 2)
  \/ ReceiveRequest(1, {3}, Producers)
  \/ Flush(1, TRUE)

SpecServe == Init /\ [][NextServe]_vars

(* --------------- one node migrating up, down and in vain --------------- *)
NextMigrate ==
  \/ MigrateApp(1)
  \/ Upsert(1, {UserTable}, {[id |-> "r1", name |-> "a"]}, {TRUE})

SpecMigrate == Init /\ [][NextMigrate]_vars

(* ------------- one node writing, pinging and hearing itself ------------ *)
NextWire ==
  \/ Start(1)
  \/ AddRemotePeer(1, {3})
  \/ PauseRemotePeer(1)
  \/ Upsert(1, {UserTable}, WireDeltas, {TRUE})
  \/ Ping(1)
  \/ PersistPing(1)
  \/ ReceiveOwn(1)
  \/ Tick(1)

SpecWire == Init /\ [][NextWire]_vars

(* ------------- one node storing, merging and sweeping patches ----------- *)
NextSweep ==
  \/ Start(1)
  \/ Tick(1)
  \/ AddRemotePeer(1, {3})
  \/ Upsert(1, {UserTable}, {[id |-> "r1", name |-> "a"]}, {TRUE})
  \/ Produce(3, {[id |-> "r2", name |-> "b"]}, 1..MaxVersion, {Len(remote[3])}, MaxSeq)
  \/ ReceivePatch(1, 3, 1)
  \/ Flush(1, TRUE)
  \/ DeleteOldPatches(1)
  \/ HourlyHeartBeat(1)
  \/ RestartNode(1)

SpecSweep == Init /\ [][NextSweep]_vars

(* ------------- one node whose peers connect and disconnect ------------ *)
NextPeers ==
  \/ Start(1)
  \/ Connect(1, {1, 3, 4})
  \/ PauseRemotePeer(1)
  \/ CloseRemotePeer(1)
  \/ CloseAgain(1, {3, 4})
  \/ Produce(3, {[id |-> "r1", name |-> "b"]}, {1}, {Len(remote[3]) + 1}, MaxSeq)
  \/ SocketMessage(1, 3)
  \/ Upsert(1, {UserTable}, {[id |-> "r1", name |-> "a"]}, {TRUE})
  \/ HeartBeatScan(1)

SpecPeers == Init /\ [][NextPeers]_vars

(* ------------- one node polling with backoff until done -------------- *)
NextBackoff ==
  \/ Tick(1)
  \/ Backoff(1, 0..MaxBackoffTime, 1..MaxDelay)
  \/ BackoffTimeout(1)
  \/ Elapse(1)

SpecBackoff ==
  /\ Init /\ [][NextBackoff]_vars
  /\ WF_vars(BackoffTimeout(1)) /\ WF_vars(Elapse(1))

(* ------ one node merging what it receives while it writes itself ------ *)
NextMerge ==
  \/ Start(1)
  \/ AddRemotePeer(1, {3})
  \/ Produce(3, {[id |-> "r1", name |-> "b"], [id |-> "r2", name |-> "b"]}, {1},
             {Len(remote[3]) + 1}, MaxSeq)
  \/ ReceivePatch(1, 3, 1)
  \/ Upsert(1, {UserTable}, {[id |-> "r3", name |-> "a"]}, {TRUE})
  \/ Flush(1, TRUE)

\* setImmediate callbacks run
SpecMerge == Init /\ [][NextMerge]_vars /\ WF_vars(Flush(1, TRUE))

(* ------- one node hearing a peer it knows and one it never added ------- *)
NextStranger ==
  \/ Start(1)
  \/ AddRemotePeer(1, {3})
  \/ Produce(3, {[id |-> "r1", name |-> "b"]}, {1}, {Len(remote[3]) + 1}, MaxSeq - 1)
  \/ Produce(4, {[id |-> "r2", name |-> "z"]}, 1..MaxVersion, {Len(remote[4]) + 1}, MaxSeq)
  \/ ReceivePatch(1, 3, 1)
  \/ ReceivePatch(1, 4, 1)
  \/ ReceivePing(1, 4)
  \/ Flush(1, TRUE)

SpecStranger == Init /\ [][NextStranger]_vars

(* ---------------------- properties of local writes -------------------- *)
Registered(n) == DOMAIN peerSockets[n]
OwnKeys(s) == {k \in AllPatchKeys(s) : k.peerId = s.myPeerId}
OwnSeqs(s) == {k.sequenceId : k \in OwnKeys(s)}
KeyedRow == [id |-> "r1", name |-> "a"]

\* C9: upsert with a callback, called while dbVersion is 0, or for a table
\* without statements, or before migrate (lastSequenceId = -1), passes an
\* error to the callback, leaves lastSequenceId, lastPatchAtTimestamp, the
\* clock, the shadow table, pending_patches and testA as they were, and sends
\* nothing.
C9_UpsertRefused ==
  \A n \in Nodes, tableName \in {UserTable, Unknown, PENDING_PATCHES_TABLE_NAME},
     rowPatch \in LocalDeltas :
    LET s == St(n)
        r == upsert(s, tableName, rowPatch, TRUE, << >>)
    IN  (s.dbVersion = 0 \/ ~HasStatement(s, tableName) \/ s.lastSequenceId = -1)
        => /\ r.cbResult.called /\ r.cbResult.err # "" /\ r.cbResult.token = ""
           /\ r.lastSequenceId = s.lastSequenceId
           /\ r.lastPatchAtTimestamp = s.lastPatchAtTimestamp
           /\ r.highestRemoteHLC = s.highestRemoteHLC /\ r.counter = s.counter
           /\ r.testA_patches = s.testA_patches
           /\ r.pending_patches = s.pending_patches
           /\ r.testA = s.testA
           /\ r.sent = << >>

\* an upsert has been refused with dbVersion = 0 on a migrated node that has
\* a registered socket
C9_Witness ==
  /\ cbResult[1].called /\ cbResult[1].err = "Database version is not set"
  /\ dbVersion[1] = 0 /\ lastSequenceId[1] >= 0 /\ Registered(1) # {}
  /\ sent[1] = << >>

\* the patch the last successful upsert of node n built
LastPatchRows(n) ==
  {r \in BagToSet(testA_patches[n]) :
     r._peerId = n /\ r._sequenceId = lastSequenceId[n]
     /\ r._patchedAt = lastPatchAtTimestamp[n]}

\* C8: when upsert has called its callback without error, it has, in this
\* order, inserted the patch (peer = myPeerId, ver = dbVersion) in the shadow
\* table, moved lastSequenceId and lastPatchAtTimestamp to the patch's seq and
\* at, run applyPatches (the row is in testA with the patch's non-null
\* columns), sent the patch once to every registered socket and to nobody
\* else, and called the callback last, with the token of the patch.
C8_UpsertOrder ==
  \A n \in Nodes :
    (cbResult[n].called /\ cbResult[n].err = "")
    => /\ steps[n] = <<"savePatch", "lastSequenceId", "applyPatches", "broadcast",
                       "callback">>
       /\ Cardinality(LastPatchRows(n)) = 1
       /\ \A r \in LastPatchRows(n) :
            /\ testA_patches[n][r] = 1
            /\ \E row \in testA[n] :
                 /\ row.id = r.id
                 /\ \A c \in Columns : r[c] # NULL => row[c] = r[c]
            /\ Len(sent[n]) = Cardinality(Registered(n))
            /\ \A p \in Registered(n) :
                 \E i \in DOMAIN sent[n] :
                   /\ sent[n][i].to = p /\ sent[n][i].socket = peerSockets[n][p]
                   /\ sent[n][i].msg.type = PATCH /\ sent[n][i].msg.peer = n
                   /\ sent[n][i].msg.seq = r._sequenceId
                   /\ sent[n][i].msg.at = r._patchedAt
                   /\ sent[n][i].msg.ver = dbVersion[n]
                   /\ sent[n][i].msg.tab = UserTable
                   /\ PatchRow(sent[n][i].msg) = r
       /\ cbResult[n].token = _generateSessionToken(n, lastSequenceId[n])

\* a second write has succeeded with one peer registered and another paused
\* or closed
C8_Witness ==
  /\ cbResult[1].called /\ cbResult[1].err = "" /\ lastSequenceId[1] = 2
  /\ Registered(1) = {3} /\ DOMAIN peerStats[1] = {3, 4}
  /\ Len(sent[1]) = 1

(* ----------------- properties of the local sequence ------------------- *)
\* what the stores of s hold once upsert(tableName, rowPatch, callback) returned
AfterUpsert(s, tableName, rowPatch) ==
  {upsert(s, tableName, rowPatch, TRUE, scan) : scan \in upsertScans(s, tableName, rowPatch)}

\* C4: the stored patches of the local peer have pairwise distinct sequence
\* ids that form 1..lastSequenceId (1..m for some m while lastSequenceId is
\* not loaded yet); a local write that succeeds is assigned lastSequenceId + 1
\* and one whose savePatch throws leaves the sequence as it was.
C4_LocalSequenceDensity ==
  \A n \in Nodes :
    LET s == St(n)
    IN  /\ \A k \in OwnSeqs(s) : Copies(n, n, k) = 1
        /\ OwnSeqs(s) = 1..Cardinality(OwnSeqs(s))
        /\ s.lastSequenceId # -1 => OwnSeqs(s) = 1..s.lastSequenceId
        /\ upsertError(s, UserTable) = ""
           => \A rowPatch \in LocalDeltas : \A r \in AfterUpsert(s, UserTable, rowPatch) :
                IF savePatchThrows(upsertPatch(s, UserTable, rowPatch))
                THEN /\ r.lastSequenceId = s.lastSequenceId
                     /\ OwnKeys(r) = OwnKeys(s)
                     /\ ~r.cbResult.called
                ELSE /\ r.lastSequenceId = s.lastSequenceId + 1
                     /\ OwnSeqs(r) = OwnSeqs(s) \cup {s.lastSequenceId + 1}
        /\ upsertError(s, PENDING_PATCHES_TABLE_NAME) = ""
           => LET r == _generatePingStatMessage(s, TRUE)
              IN  /\ r.lastSequenceId = s.lastSequenceId + 1
                  /\ OwnSeqs(r) = OwnSeqs(s) \cup {s.lastSequenceId + 1}

\* the node wrote a persistent ping and a row, restarted (its clock is new
\* although a remote patch is stored) and loaded its sequence again
C4_Witness ==
  /\ lastSequenceId[1] = 2 /\ highestRemoteHLC[1] = 0
  /\ \E r \in BagToSet(pending_patches[1]) : r._peerId = 1
  /\ \E r \in BagToSet(testA_patches[1]) : r._peerId = 1
  /\ \E r \in BagToSet(testA_patches[1]) : r._peerId = 3

SessionTokens == <<"1.1", "1.2", "1.3", "1.4", "1.5">>

\* the next upsert of s is assigned seq and returns the token "<myPeerId>.<seq>"
NextUpsertGets(s, seq) ==
  \A r \in AfterUpsert(s, UserTable, KeyedRow) :
    /\ r.cbResult.called /\ r.cbResult.err = ""
    /\ s.myPeerId = 1 => r.cbResult.token = SessionTokens[seq]
    /\ \E row \in BagToSet(r.testA_patches) :
         row._peerId = s.myPeerId /\ row._sequenceId = seq /\ row \notin BagToSet(s.testA_patches)

\* C10: a migrate that succeeds on a database holding own patches with
\* maximum sequence id m sets lastSequenceId to m and lastPatchAtTimestamp to
\* their maximum _patchedAt, whatever other peers' patches are stored, and
\* the next upsert gets m + 1 and the token "<myPeerId>.<m+1>"; without own
\* patches the next upsert gets 1.
C10_SequenceContinuation ==
  \A n \in Nodes, _targetId \in 1..MaxVersion :
    LET s == St(n)
        r == migrate(s, TestMigrations(_targetId))
        own == OwnKeys(s)
    IN  ~migrateThrows(s, TestMigrations(_targetId))
        => IF own # {}
           THEN /\ r.lastSequenceId = Max({k.sequenceId : k \in own})
                /\ r.lastPatchAtTimestamp = Max({k.patchedAt : k \in own})
                /\ NextUpsertGets(r, Max({k.sequenceId : k \in own}) + 1)
           ELSE /\ r.lastSequenceId = 0
                /\ NextUpsertGets(r, 1)

\* after a restart (the clock is new) and migrate, with own patch 1 written
\* before the restart and a remote patch 2 stored, the upsert got "1.2"
C10_Witness ==
  /\ cbResult[1].called /\ cbResult[1].token = "1.2" /\ highestRemoteHLC[1] = 0
  /\ \E r \in BagToSet(testA_patches[1]) :
       r._peerId = 1 /\ r._sequenceId = 1 /\ r._patchedAt > from(1, 0)
  /\ \E r \in BagToSet(testA_patches[1]) : r._peerId = 3 /\ r._sequenceId = 2

(* -------------------- properties of the gap tracking ------------------- *)
Guaranteed(n, p) == peerStats[n][p][GUARANTEED_CONTIGUOUS_SEQUENCE_ID]
Last(n, p) == peerStats[n][p][LAST_SEQUENCE_ID]

\* C1: whenever GUARANTEED_CONTIGUOUS_SEQUENCE_ID of a remote peer p is g,
\* every patch (p, seq) with seq in 1..g is stored in the shadow table or in
\* pending_patches.
C1_ContiguousPrefixStored ==
  \A n \in Nodes : \A p \in DOMAIN peerStats[n] :
    \A seq \in 1..Guaranteed(n, p) : Copies(n, p, seq) >= 1

\* C5: GUARANTEED_CONTIGUOUS_SEQUENCE_ID of a remote peer is never above its
\* LAST_SEQUENCE_ID.
C5_GuaranteedAtMostLast ==
  \A n \in Nodes : \A p \in DOMAIN peerStats[n] : Guaranteed(n, p) <= Last(n, p)

\* C6: no step lowers GUARANTEED_CONTIGUOUS_SEQUENCE_ID or LAST_SEQUENCE_ID of
\* a remote peer.
C6_NeverDecreases ==
  [][\A n \in Nodes : \A p \in DOMAIN peerStats[n] :
       /\ p \in DOMAIN peerStats'[n]
       /\ peerStats'[n][p][GUARANTEED_CONTIGUOUS_SEQUENCE_ID] >= Guaranteed(n, p)
       /\ peerStats'[n][p][LAST_SEQUENCE_ID] >= Last(n, p)]_vars

(* ------------------------ properties of the merge ---------------------- *)
Quiescent(n) == ~flushScheduled[n] /\ orphanFlushes[n] = {}

\* C2: two nodes with the same schema that have stored the same multiset of
\* patches hold the same materialised table once neither has a flush pending.
C2_Convergence ==
  (/\ UserTable \in schema[1] /\ UserTable \in schema[2] /\ Quiescent(1) /\ Quiescent(2)
   /\ testA_patches[1] = testA_patches[2])
  => testA[1] = testA[2]

\* rows of table for the row id that set column c
Setting(table, id, c) == {r \in BagToSet(table) : r.id = id /\ r[c] # NULL}

\* the row with the greatest (patchedAt, peerId, sequenceId) of a set of rows
Greatest(rows) ==
  CHOOSE x \in rows : \A y \in rows :
    \/ y._patchedAt < x._patchedAt
    \/ /\ y._patchedAt = x._patchedAt
       /\ \/ y._peerId < x._peerId
          \/ y._peerId = x._peerId /\ y._sequenceId <= x._sequenceId

\* C3: once the stored patches of a row are merged, every non-key column of
\* the row holds the value of the patch with the greatest (patchedAt, peerId,
\* sequenceId) among the patches that set the column, in whatever order they
\* arrived or were read; a column no patch sets keeps its prior value (NULL
\* for a row the merge created).
C3_LastWriterWins ==
  \A n \in Nodes :
    Quiescent(n) =>
      \A id \in {r.id : r \in BagToSet(testA_patches[n])} :
        \E row \in testA[n] :
          /\ row.id = id
          /\ \A c \in Columns :
               row[c] = IF Setting(testA_patches[n], id, c) = {} THEN NULL
                        ELSE Greatest(Setting(testA_patches[n], id, c))[c]

(* --------------------- properties of retransmission -------------------- *)
\* node n lacks the patch (p, seq) although it has seen a sequence id of p
\* that is at least seq, p is registered with a socket and the statements are
\* prepared
Lacks(n, p, seq) ==
  /\ PENDING_PATCHES_TABLE_NAME \in tableStatements[n]
  /\ p \in DOMAIN peerSockets[n] /\ p \in DOMAIN peerStats[n]
  /\ seq <= Last(n, p)
  /\ Copies(n, p, seq) = 0

\* C7: a patch of p that the node lacks, with a sequence id at most the
\* highest one seen of p, is eventually stored (after a MISSING_PATCH request
\* that p answers).
C7_RetransmissionLiveness ==
  \A seq \in 1..MaxRemoteSeq : Lacks(1, 3, seq) ~> (Copies(1, 3, seq) >= 1)

(* ------------------- properties of the clock and merge ----------------- *)
OwnRows(n) == {r \in BagToSet(testA_patches[n]) : r._peerId = n}
RemoteRows(n) ==
  {r \in BagToSet(testA_patches[n]) \cup BagToSet(pending_patches[n]) : r._peerId # n}

\* C11: of two stored patches of one peer for the same row, the one with the
\* higher sequence id never has the lower _patchedAt, and when both set a
\* column to different values the merged row does not hold the value of the
\* lower sequence id (unless a patch of another peer, or a still later one of
\* this peer, carries that value).
C11_SequenceOrderMaterialised ==
  \A n \in Nodes :
    Quiescent(n) =>
      \A r1, r2 \in BagToSet(testA_patches[n]) :
        (r1._peerId = r2._peerId /\ r1.id = r2.id /\ r1._sequenceId < r2._sequenceId)
        => /\ r1._patchedAt <= r2._patchedAt
           /\ \A c \in Columns :
                (r1[c] # NULL /\ r2[c] # NULL /\ r1[c] # r2[c])
                => \A row \in testA[n] :
                     (row.id = r1.id /\ row[c] = r1[c])
                     => \E r3 \in BagToSet(testA_patches[n]) :
                          /\ r3.id = r1.id /\ r3[c] = r1[c]
                          /\ \/ r3._peerId # r1._peerId
                             \/ r3._sequenceId > r2._sequenceId

\* an applyPatches pass over any selection of the stored patches leaves a
\* column that none of the scanned patches of the row sets as it was
PassKeepsUnsetColumns ==
  \A n \in Nodes :
    \A fromTimestamp \in {r._patchedAt : r \in BagToSet(testA_patches[n])} :
      \A scan \in ScanOrders(testA_patches[n], fromTimestamp) :
        \A row \in testA[n] :
          \E row2 \in applyPatches(St(n), scan).testA :
            /\ row2.id = row.id
            /\ \A c \in Columns :
                 /\ row[c] # NULL => row2[c] # NULL
                 /\ (\A i \in DOMAIN scan : scan[i].id = row.id => scan[i][c] = NULL)
                    => row2[c] = row[c]

\* no step turns a non-null column of a materialised row into NULL, and a
\* column changes only to a value that a stored patch of the row carries
StepKeepsNonNull ==
  \A n \in Nodes : \A row \in testA[n] :
    \E row2 \in testA'[n] :
      /\ row2.id = row.id
      /\ \A c \in Columns :
           /\ row[c] # NULL => row2[c] # NULL
           /\ row2[c] # row[c]
              => \E r \in BagToSet(testA_patches'[n]) : r.id = row.id /\ r[c] = row2[c]

\* C12: no applyPatches pass, local or debounced, changes a non-key column of
\* an existing materialised row from a non-null value to NULL, and a patch
\* that omits a column or carries NULL for it leaves the column as it was.
C12_NullNeverOverwrites == [](PassKeepsUnsetColumns) /\ [][StepKeepsNonNull]_vars

\* the row written locally with a name has merged a remote patch that has no
\* name: the name is still there
C12_Witness ==
  /\ ~flushScheduled[1]
  /\ \E r \in RemoteRows(1) : r.name = NULL /\ r.deletedAt = "e"
  /\ \E row \in testA[1] : row.name # NULL /\ row.deletedAt = "e"

\* the greatest HLC among the stored patches of other peers (all of them were
\* passed to hlc.receive)
HighestReceived(n) == Max({r._patchedAt : r \in RemoteRows(n)})

\* C13: the next hlc.create() is above every HLC received so far, whatever
\* the wall clock reads; with the newest received HLC from(t, 0), a clock
\* behind t and the counter at 0, the next upsert builds a patch at from(t, 1).
C13_CreateAboveReceived ==
  \A n \in Nodes :
    /\ \A r \in RemoteRows(n) : createValue(St(n)) > r._patchedAt
    /\ (/\ RemoteRows(n) # {} /\ upsertError(St(n), UserTable) = ""
        /\ counter[n] = 0 /\ wall[n] < toTimestamp(HighestReceived(n)))
       => upsertPatch(St(n), UserTable, KeyedRow).at
            = from(toTimestamp(HighestReceived(n)), toCounter(HighestReceived(n)) + 1)

\* the node, whose clock reads 1, stored a remote patch at from(2, 0) and then
\* wrote a patch at from(2, 1)
C13_Witness ==
  /\ wall[1] = 1
  /\ \E r \in RemoteRows(1) : r._patchedAt = from(2, 0)
  /\ \E r \in OwnRows(1) : r._patchedAt = from(2, 1) /\ r._sequenceId = lastSequenceId[1]

\* C14: hlc.create() never returns less than it returned before: once a local
\* patch exists, the next create() is at least the value of the last one.
C14_CreateNonDecreasing ==
  \A n \in Nodes :
    (lastSequenceId[n] > 0 /\ OwnRows(n) # {})
    => createValue(St(n)) >= lastPatchAtTimestamp[n]

\* C15: hlc.create() never returns a value less than or equal to an HLC it
\* received or returned before (the counter stays far below 8191 here).
C15_CreateStrictlyAbove ==
  \A n \in Nodes :
    counter[n] <= 8191
    => /\ \A r \in RemoteRows(n) : createValue(St(n)) > r._patchedAt
       /\ \A r \in OwnRows(n) : createValue(St(n)) > r._patchedAt

\* C15 as amended: hlc.create() is above every HLC received so far; a second
\* create() in the same wall-clock millisecond, with no receive in between,
\* returns the same value when the clock is ahead of every received HLC and
\* the next value (+ 1) otherwise.
C15_CreateAboveReceivedRepeatsOwn ==
  \A n \in Nodes :
    counter[n] <= 8191
    => /\ \A r \in RemoteRows(n) : createValue(St(n)) > r._patchedAt
       /\ createValue(createState(St(n)))
            = IF from(wall[n], 0) > highestRemoteHLC[n]
              THEN createValue(St(n)) ELSE createValue(St(n)) + 1

\* two local patches carry the same HLC, above the one of a stored remote
\* patch, and a third create() would return + 1 of a newer remote HLC
C15_Witness ==
  /\ \E r1, r2 \in OwnRows(1) :
       r1._sequenceId # r2._sequenceId /\ r1._patchedAt = r2._patchedAt
       /\ \E r \in RemoteRows(1) : r._patchedAt < r1._patchedAt
  /\ from(wall[1], 0) <= highestRemoteHLC[1]

(* ---------------------- properties of the staging ---------------------- *)
Prepared(n) == PENDING_PATCHES_TABLE_NAME \in tableStatements[n]

\* PATCH messages of producer p for testA stamped with the version ver
PatchesOfVersion(p, ver) ==
  {[type |-> PATCH, at |-> from(w, 0), peer |-> p, seq |-> seq, ver |-> ver,
    tab |-> UserTable, delta |-> d] :
      w \in Walls, seq \in 1..(MaxSeq + 1), d \in RemoteDeltas}

\* C16: a PATCH whose ver differs from dbVersion is inserted in
\* pending_patches and nowhere else: the shadow table and testA stay as they
\* were and no merge pass is scheduled; the clock and the peer-stat vector of
\* the sender move exactly as for the same patch with the matching version.
C16_MismatchStaged ==
  \A n \in Nodes : \A p \in Producers :
    \A ver \in (0..(MaxVersion + 1)) \ {dbVersion[n]} : \A patch \in PatchesOfVersion(p, ver) :
      Prepared(n) =>
        LET s == St(n)
            r == _onMessage(s, patch)
            m == _onMessage(s, [patch EXCEPT !.ver = s.dbVersion])
        IN  /\ r.pending_patches = s.pending_patches (+) SetToBag({PendingRow(patch)})
            /\ r.testA_patches = s.testA_patches
            /\ r.testA = s.testA
            /\ r.flushScheduled = s.flushScheduled
            /\ r.debounceFromTimestamp = s.debounceFromTimestamp
            /\ r.orphanFlushes = s.orphanFlushes
            /\ r.peerStats = m.peerStats
            /\ r.synced = m.synced
            /\ r.highestRemoteHLC = m.highestRemoteHLC /\ r.counter = m.counter

\* the node, at version 1 with peer 3 added, holds patch 2 of peer 3 (version
\* 2) in pending_patches only; the gap tracking has seen sequence id 2
C16_Witness ==
  /\ dbVersion[1] = 1 /\ 3 \in DOMAIN peerStats[1]
  /\ \E r \in BagToSet(pending_patches[1]) :
       r._peerId = 3 /\ r._sequenceId = 2 /\ r.patchVersion = 2
  /\ \A r \in BagToSet(testA_patches[1]) : r._sequenceId # 2
  /\ peerStats[1][3][LAST_SEQUENCE_ID] = 2
  /\ ~flushScheduled[1]

\* the patch (p, seq) is staged with version ver
Staged(n, p, seq, ver) ==
  \E r \in BagToSet(pending_patches[n]) :
    r._peerId = p /\ r._sequenceId = seq /\ r.patchVersion = ver

\* the patch (p, seq) is in the shadow table and its row is materialised
Applied(n, p, seq) ==
  \E r \in BagToSet(testA_patches[n]) :
    /\ r._peerId = p /\ r._sequenceId = seq
    /\ \E row \in testA[n] : row.id = r.id

\* C17: a patch staged with version v is, once migrate has brought the node
\* to version v, eventually in the shadow table and in the materialised
\* table; a patch staged with another version stays staged.
C17_StagedEventuallyApplied ==
  /\ \A seq \in 1..MaxSeq : \A v \in 1..MaxVersion :
       (Staged(1, 3, seq, v) /\ dbVersion[1] = v /\ _lastAppliedId(migrations[1]) = v /\ Prepared(1))
       ~> Applied(1, 3, seq)
  /\ [][\A seq \in 1..MaxSeq : \A v \in 1..MaxVersion :
          (Staged(1, 3, seq, v) /\ dbVersion'[1] # v) => Staged(1, 3, seq, v)']_vars

(* -------------------- properties of the synced event ------------------- *)
Emitted(n) == {synced[n][i] : i \in DOMAIN synced[n]}

\* the messages of peer p that node n would find contiguous: a PING, and once
\* the statements are prepared a PATCH of the local or of another version
ContiguousMessages(n, p) ==
  LET seq == Guaranteed(n, p) + 1
  IN  {[type |-> PING, at |-> from(w, 0), peer |-> p, seq |-> seq, ver |-> 1,
        tab |-> PENDING_PATCHES_TABLE_NAME, delta |-> << >>] : w \in Walls}
      \cup
      (IF UserTable \in tableStatements[n]
       THEN {[type |-> PATCH, at |-> from(w, 0), peer |-> p, seq |-> seq, ver |-> v,
              tab |-> UserTable, delta |-> d] :
                w \in Walls, v \in {dbVersion[n], dbVersion[n] + 1}, d \in RemoteDeltas}
       ELSE {})

\* no peer is in the list of emitted events twice
SyncedOnce == \A n \in Nodes : Cardinality(Emitted(n)) = Len(synced[n])

\* processing a message with seq = GUARANTEED_CONTIGUOUS_SEQUENCE_ID + 1 of an
\* added peer emits synced(peer) unless it was emitted before
EmitsAtContiguousMessage ==
  \A n \in Nodes : \A p \in DOMAIN peerStats[n] : \A msg \in ContiguousMessages(n, p) :
    _onMessage(St(n), msg).synced
      = IF p \in Emitted(n) THEN synced[n] ELSE Append(synced[n], p)

\* an event is emitted only by a step that moves the peer's guaranteed
\* sequence id by one, and only for a peer without an earlier event
StepEmitsAtContiguousMessage ==
  \A n \in Nodes :
    synced'[n] # synced[n]
    => \E p \in DOMAIN peerStats[n] :
         /\ synced'[n] = Append(synced[n], p) /\ p \notin Emitted(n)
         /\ peerStats'[n][p][GUARANTEED_CONTIGUOUS_SEQUENCE_ID] = Guaranteed(n, p) + 1

\* C18: synced(peerId) is emitted at most once for a peer added with
\* addRemotePeer, whatever messages, heartbeat scans and socket replacements
\* follow, and it is emitted when the first message of the peer with
\* seq = GUARANTEED_CONTIGUOUS_SEQUENCE_ID + 1 is processed.
C18_SyncedOnce ==
  [](SyncedOnce /\ EmitsAtContiguousMessage) /\ [][StepEmitsAtContiguousMessage]_vars

\* both peers have had their event, peer 3 lost its socket afterwards and more
\* contiguous messages of it were processed
C18_Witness ==
  /\ Len(synced[1]) = 2 /\ Emitted(1) = {3, 4}
  /\ 3 \notin DOMAIN peerSockets[1]
  /\ Guaranteed(1, 3) = 3

(* ----------------- properties of read-your-writes ---------------------- *)
\* C19: isConsistentFromSessionToken(peerId, seq) is true exactly when peerId
\* is falsy, or peerStats has no entry for peerId, or
\* GUARANTEED_CONTIGUOUS_SEQUENCE_ID of peerId is at least seq.
C19_ConsistentFromSessionToken ==
  \A n \in Nodes : \A peerId \in 0..5 : \A seq \in 0..(MaxRemoteSeq + 1) :
    isConsistentFromSessionToken(St(n), peerId, seq)
      <=> \/ peerId = 0
          \/ peerId \notin DOMAIN peerStats[n]
          \/ peerStats[n][peerId][GUARANTEED_CONTIGUOUS_SEQUENCE_ID] >= seq

\* peer 3 is guaranteed up to 2: its token for seq 2 is consistent, the one
\* for seq 3 is not, and any token of the unknown peer 4 is
C19_Witness ==
  /\ 3 \in DOMAIN peerStats[1] /\ 4 \notin DOMAIN peerStats[1]
  /\ Guaranteed(1, 3) = 2
  /\ isConsistentFromSessionToken(St(1), 3, 2)
  /\ ~isConsistentFromSessionToken(St(1), 3, 3)
  /\ isConsistentFromSessionToken(St(1), 4, 3)

(* --------------------- properties of gap detection --------------------- *)
\* sequence ids of peer p stored by s with _patchedAt >= fromTimestamp
StoredSeqs(s, p, fromTimestamp) ==
  {k.sequenceId : k \in {j \in AllPatchKeys(s) :
                           j.peerId = p /\ j.patchedAt >= fromTimestamp}}

\* the gaps the claim describes: consecutive stored ids a < b with b - a > 1
ExpectedGaps(s, fromTimestamp) ==
  {[peerId |-> p, sequenceId |-> a, nbMissingSequenceIds |-> b - a - 1] :
     p \in {k.peerId : k \in AllPatchKeys(s)} \ {s.myPeerId},
     a \in 1..MaxRemoteSeq, b \in 1..MaxRemoteSeq} \cap
  {g \in [peerId : Producers \cup Nodes, sequenceId : 1..MaxRemoteSeq,
          nbMissingSequenceIds : 1..MaxRemoteSeq] :
     LET S == StoredSeqs(s, g.peerId, fromTimestamp)
         b == g.sequenceId + g.nbMissingSequenceIds + 1
     IN  /\ g.sequenceId \in S /\ b \in S
         /\ \A x \in S : ~(g.sequenceId < x /\ x < b)}

Entry(m) == [peerId |-> m.peerId, sequenceId |-> m.sequenceId,
             nbMissingSequenceIds |-> m.nbMissingSequenceIds]

\* C20: _getMissingPatches(fromTs) returns, ordered by (peerId, sequenceId),
\* one entry per remote peer and pair of consecutive stored sequence ids a < b
\* with b - a > 1 among the rows with _patchedAt >= fromTs, sends for each
\* entry of a peer with a socket one MISSING_PATCH {peer, minSeq a + 1,
\* maxSeq b - 1, forPeer myPeerId} in that order, and requests no sequence id
\* that is stored locally.
C20_GapDetection ==
  \A n \in Nodes :
    Prepared(n) =>
      \A fromTimestamp \in {0} \cup {from(w, 0) : w \in Walls} :
        LET s == Begin(St(n))
            list == listMissingSequenceIds(s, fromTimestamp)
            asked == SelectSeq(list, LAMBDA m : m.peerId \in DOMAIN s.peerSockets)
            r == _getMissingPatches(s, fromTimestamp)
        IN  /\ {Entry(list[i]) : i \in DOMAIN list} = ExpectedGaps(s, fromTimestamp)
            /\ Len(list) = Cardinality(ExpectedGaps(s, fromTimestamp))
            /\ \A i, j \in DOMAIN list :
                 i < j => \/ list[i].peerId < list[j].peerId
                          \/ /\ list[i].peerId = list[j].peerId
                             /\ list[i].sequenceId < list[j].sequenceId
            /\ Len(r.sent) = Len(asked)
            /\ \A i \in DOMAIN asked :
                 /\ r.sent[i].to = asked[i].peerId
                 /\ r.sent[i].msg =
                      [type |-> MISSING_PATCH, peer |-> asked[i].peerId,
                       minSeq |-> asked[i].sequenceId + 1,
                       maxSeq |-> asked[i].sequenceId + asked[i].nbMissingSequenceIds,
                       forPeer |-> n]
                 /\ r.sent[i].msg.maxSeq
                      = asked[i].sequenceId + asked[i].nbMissingSequenceIds
                 /\ \A seq \in r.sent[i].msg.minSeq .. r.sent[i].msg.maxSeq :
                      Copies(n, asked[i].peerId, seq) = 0

(* ------------------ properties of serving stored patches -------------- *)
\* the sequence ids of peer p that s stores in minSeq..maxSeq
StoredInRange(s, p, minSeq, maxSeq) ==
  {k.sequenceId : k \in {j \in AllPatchKeys(s) :
     j.peerId = p /\ j.sequenceId >= minSeq /\ j.sequenceId <= maxSeq}}

\* the envelope carries the at, peer, seq and table of a stored row
CarriesStored(s, e) ==
  \/ \E r \in BagToSet(s.testA_patches) :
       /\ e.at = r._patchedAt /\ e.peer = r._peerId /\ e.seq = r._sequenceId
       /\ e.tab = UserTable
  \/ \E r \in BagToSet(s.pending_patches) :
       /\ e.at = r._patchedAt /\ e.peer = r._peerId /\ e.seq = r._sequenceId
       /\ e.tab = r.tableName

\* C21: a MISSING_PATCH {peer, minSeq, maxSeq, forPeer} whose forPeer has a
\* socket makes the node send, to that socket only, one PATCH envelope per
\* stored patch of peer with minSeq <= seq <= maxSeq (shadow table and
\* pending_patches), in ascending seq order, each with the stored at, peer,
\* seq and table; ids not stored are skipped; without a socket nothing is
\* sent; the stores and the peer stats stay as they were.
C21_ServesStoredRange ==
  \A n \in Nodes : \A msg \in Requests(Producers, Producers) :
    LET s == St(n)
        r == _onMessage(s, msg)
        ids == Ascending(StoredInRange(s, msg.peer, msg.minSeq, msg.maxSeq))
    IN  /\ r = [Begin(s) EXCEPT !.sent = r.sent]
        /\ IF msg.forPeer \in DOMAIN s.peerSockets
           THEN /\ [i \in DOMAIN r.sent |-> r.sent[i].msg.seq] = ids
                /\ \A i \in DOMAIN r.sent :
                     /\ r.sent[i].to = msg.forPeer
                     /\ r.sent[i].socket = s.peerSockets[msg.forPeer]
                     /\ r.sent[i].msg.type = PATCH
                     /\ r.sent[i].msg.peer = msg.peer
                     /\ CarriesStored(s, r.sent[i].msg)
           ELSE r.sent = << >>

(* ----------------------- properties of migrate ------------------------- *)
\* C22: when an up or down statement of a migrate call fails, the call
\* throws and the database is as before the call: no table of the batch is
\* created or dropped and the migrations table holds the same rows (nor does
\* a stored patch or a materialised row change).
C22_MigrationAtomic ==
  \A n \in Nodes : \A appMigrations \in AppMigrationLists :
    LET s == St(n)
        r == migrate(s, appMigrations)
    IN  migrateThrows(s, appMigrations)
        => /\ r.schema = s.schema
           /\ r.migrations = s.migrations
           /\ r.testA_patches = s.testA_patches
           /\ r.pending_patches = s.pending_patches
           /\ r.testA = s.testA
           /\ r.tableStatements = s.tableStatements

\* migrate([]) has failed on a database with two applied migrations, after
\* the down script of the second had run: both rows and the table are there
C22_Witness ==
  /\ Cardinality(migrations[1]) = 2 /\ dbVersion[1] = 0
  /\ "test1" \in schema[1]
  /\ LET db == transaction(St(1), << >>)
     IN  db.threw /\ Len(db.ran) = 2 /\ "test1" \notin db.schema

\* the row of rows with the id
RowOf(rows, id) == CHOOSE r \in rows : r.id = id

\* C23: migrate(appMigrations) with target = appMigrations.length and last =
\* the highest applied id runs, when target > last, the up scripts of the ids
\* last+1..target in ascending order and records them; when target < last,
\* the recorded down scripts of the ids last..target+1 in descending order
\* and removes their rows; when they are equal, nothing; after a call that
\* succeeds the migrations table holds exactly the ids 1..target and the call
\* returns {currentVersion: target, previousVersion: last}.
C23_MigrateUpDown ==
  \A n \in Nodes : \A appMigrations \in AppMigrationLists :
    LET s == St(n)
        target == Len(appMigrations)
        last == IF s.migrations = {} THEN 0 ELSE Max({r.id : r \in s.migrations})
        db == transaction(s, appMigrations)
        r == migrate(s, appMigrations)
    IN  ~migrateThrows(s, appMigrations)
        => /\ IF target > last
              THEN /\ db.ran = [k \in 1..(target - last) |->
                                  [id |-> last + k, sql |-> appMigrations[last + k].up]]
                   /\ r.migrations = s.migrations \cup
                        {[id |-> i, up |-> appMigrations[i].up,
                          down |-> appMigrations[i].down] : i \in (last + 1)..target}
              ELSE IF target < last
              THEN /\ db.ran = [k \in 1..(last - target) |->
                                  [id |-> last + 1 - k,
                                   sql |-> RowOf(s.migrations, last + 1 - k).down]]
                   /\ r.migrations = {row \in s.migrations : row.id <= target}
              ELSE db.ran = << >> /\ r.migrations = s.migrations /\ r.schema = s.schema
           /\ {row.id : row \in r.migrations} = 1..target
           /\ Cardinality(r.migrations) = target
           /\ migrateResult(s, appMigrations)
                = [currentVersion |-> target, previousVersion |-> last]

\* a database downgraded to version 1 whose second migration had no down
\* script: one row is recorded, the table of the second migration is still
\* there, and a further downgrade to 0 would run the down script of row 1
C23_Witness ==
  /\ {row.id : row \in migrations[1]} = {1} /\ dbVersion[1] = 1
  /\ schema[1] = {"test2", "test1"}
  /\ ~migrateThrows(St(1), << >>)
  /\ transaction(St(1), << >>).ran = <<[id |-> 1, sql |-> Drop("test2")]>>

(* ------------- properties of what a node sends and accepts ------------ *)
\* the columns declared for testA
Declared == Columns \cup {"id"}

\* C24: the PATCH that upsert broadcasts carries in delta only the columns
\* declared for the table: a key of the caller's row that is no column of
\* the table is neither in the shadow row nor in the delta of a broadcast
\* message.
C24_DeclaredColumnsOnly ==
  \A n \in Nodes :
    /\ \A r \in BagToSet(testA_patches[n]) :
         DOMAIN r = Declared \cup {"_patchedAt", "_sequenceId", "_peerId"}
    /\ \A i \in DOMAIN sent[n] :
         (sent[n][i].msg.type = PATCH /\ sent[n][i].msg.tab = UserTable)
         => DOMAIN sent[n][i].msg.delta \subseteq Declared

\* the PATCH and PING messages that carry the peer id p
MessagesOf(p) ==
  UNION {PatchesOfVersion(p, ver) : ver \in 1..MaxVersion}
  \cup {[type |-> PING, at |-> from(w, 0), peer |-> p, seq |-> seq, ver |-> 1,
         tab |-> PENDING_PATCHES_TABLE_NAME, delta |-> << >>] :
          w \in Walls, seq \in 0..(MaxSeq + 1)}

\* the peers node n has never registered with addRemotePeer
Strangers(n) == Producers \ DOMAIN peerStats[n]

\* C25 as stated: a PATCH or PING whose peer was never registered with
\* addRemotePeer is dropped: it creates no peerStats entry, and a PATCH of
\* such a peer is neither stored in a shadow or pending table nor applied to
\* a materialised table.
C25_UnknownPeerDropped ==
  \A n \in Nodes : \A p \in Strangers(n) : \A msg \in MessagesOf(p) :
    LET s == St(n)
        r == _onMessage(s, msg)
    IN  /\ r.peerStats = s.peerStats
        /\ r.testA_patches = s.testA_patches
        /\ r.pending_patches = s.pending_patches
        /\ r.testA = s.testA
        /\ r.flushScheduled = s.flushScheduled
        /\ \A row \in BagToSet(s.testA_patches) \cup BagToSet(s.pending_patches) :
             row._peerId \notin Strangers(n)

\* C25: a PATCH or PING whose peer was never registered with addRemotePeer
\* creates no peerStats entry, changes no stat vector, emits no synced event
\* and sends nothing; a PING does no more than pass its timestamp to the
\* clock.  On a node that has migrated a PATCH of such a peer is stored
\* nevertheless, in the shadow table when its version is the node's and in
\* pending_patches otherwise, and a shadow row is scheduled for the next
\* merge pass.
C25_UnknownPeerUntracked ==
  \A n \in Nodes : \A p \in Strangers(n) : \A msg \in MessagesOf(p) :
    LET s == St(n)
        r == _onMessage(s, msg)
    IN  /\ r.peerStats = s.peerStats
        /\ r.peerStartedNotSynced = s.peerStartedNotSynced
        /\ r.synced = s.synced
        /\ r.sent = << >>
        /\ msg.type = PING => r = receive(Begin(s), msg.at)
        /\ (msg.type = PATCH /\ Prepared(n) /\ UserTable \in s.tableStatements)
           => /\ r.highestRemoteHLC = Max({s.highestRemoteHLC, msg.at})
              /\ IF msg.ver = s.dbVersion
                 THEN /\ r.testA_patches = s.testA_patches (+) SetToBag({PatchRow(msg)})
                      /\ r.pending_patches = s.pending_patches
                      /\ r.flushScheduled /\ r.debounceFromTimestamp <= msg.at
                 ELSE /\ r.pending_patches
                           = s.pending_patches (+) SetToBag({PendingRow(msg)})
                      /\ r.testA_patches = s.testA_patches
                      /\ r.flushScheduled = s.flushScheduled

\* node 1 knows peer 3 only; a patch of peer 4 is in its shadow table and
\* merged into testA, another is staged, and peerStats has no entry for 4
C25_Witness ==
  /\ DOMAIN peerStats[1] = {3}
  /\ \E row \in BagToSet(testA_patches[1]) : row._peerId = 4
  /\ \E row \in testA[1] : row.id = "r2" /\ row.name = "z"
  /\ highestRemoteHLC[1] >= from(1, 0)

\* C26: an inbound PATCH whose peer is myPeerId changes nothing: no row is
\* added to a shadow or pending table, no merge pass is scheduled,
\* lastSequenceId, the peer stats and the clock stay as they were and
\* nothing is sent.
C26_LoopbackIgnored ==
  \A n \in Nodes : \A msg \in Loopbacks(n) :
    _onMessage(St(n), msg) = Begin(St(n))

\* node 1, with a socket to peer 3, holds its own patch 1 and hears a PATCH
\* with its own peer id, the same sequence id and a later timestamp than
\* its clock has seen
C26_Witness ==
  /\ 3 \in DOMAIN peerSockets[1] /\ lastSequenceId[1] >= 1 /\ sent[1] = << >>
  /\ \E row \in BagToSet(testA_patches[1]) : \E msg \in Loopbacks(1) :
       /\ row._peerId = 1 /\ row._sequenceId = msg.seq
       /\ msg.at > highestRemoteHLC[1] /\ msg.at > row._patchedAt
       /\ msg.ver = dbVersion[1]
       /\ _onMessage(St(1), msg).testA_patches = testA_patches[1]

\* the PING a non-persistent ping of s sends
PingMessage(s) ==
  [type |-> PING, at |-> s.lastPatchAtTimestamp, peer |-> s.myPeerId,
   seq |-> s.lastSequenceId, ver |-> s.dbVersion,
   tab |-> PENDING_PATCHES_TABLE_NAME, delta |-> s.peerStats]

\* one message to every registered socket, and nothing else
ToEverySocket(s, sends, msg) ==
  /\ Len(sends) = Cardinality(DOMAIN s.peerSockets)
  /\ {sends[i].to : i \in DOMAIN sends} = DOMAIN s.peerSockets
  /\ \A i \in DOMAIN sends :
       sends[i].socket = s.peerSockets[sends[i].to] /\ sends[i].msg = msg

\* C28: a non-persistent ping changes no local state: it sends to every
\* registered socket one PING with seq = lastSequenceId, at =
\* lastPatchAtTimestamp and delta = peerStats, stores no row and leaves
\* lastSequenceId and lastPatchAtTimestamp as they were; a persistent ping
\* of a node that has migrated stores one row in pending_patches under the
\* table name "_" and increases lastSequenceId by exactly 1, so that a
\* non-persistent ping sent after it carries its seq and at.
C28_PingFrames ==
  \A n \in Nodes :
    LET s == St(n)
        ping == _generatePingStatMessage(s, FALSE)
        stored == _generatePingStatMessage(s, TRUE)
        later == _generatePingStatMessage(stored, FALSE)
        row == [_patchedAt |-> stored.lastPatchAtTimestamp, _peerId |-> n,
                _sequenceId |-> s.lastSequenceId + 1, patchVersion |-> s.dbVersion,
                tableName |-> PENDING_PATCHES_TABLE_NAME, delta |-> s.peerStats]
    IN  /\ ping = [Begin(s) EXCEPT !.sent = ping.sent]
        /\ ToEverySocket(s, ping.sent, PingMessage(s))
        /\ upsertError(s, PENDING_PATCHES_TABLE_NAME) = ""
           => /\ stored.lastSequenceId = s.lastSequenceId + 1
              /\ stored.pending_patches = s.pending_patches (+) SetToBag({row})
              /\ stored.testA_patches = s.testA_patches /\ stored.testA = s.testA
              /\ ToEverySocket(s, later.sent,
                   [PingMessage(s) EXCEPT !.seq = row._sequenceId, !.at = row._patchedAt])

\* after an upsert and a persistent ping, the non-persistent ping that
\* peer 3 was last sent carries sequence id 2 and the timestamp of the row
\* stored under "_"
C28_Witness ==
  /\ lastSequenceId[1] = 2
  /\ \E row \in BagToSet(pending_patches[1]) :
       /\ row.tableName = PENDING_PATCHES_TABLE_NAME /\ row._sequenceId = 2
       /\ row._peerId = 1
       /\ Len(sent[1]) = 1 /\ sent[1][1].to = 3
       /\ sent[1][1].msg.type = PING /\ sent[1][1].msg.seq = 2
       /\ sent[1][1].msg.at = row._patchedAt

\* the cut-off of a sweep made by s
OldestPatchTimestamp(s) == from(s.wall - MAX_PATCH_RETENTION_MS, 0)

\* after holds no row stamped below the cut-off and every other row of
\* before as often as before holds it
Swept(before, after, timestamp) ==
  \A r \in BagToSet(before) \cup BagToSet(after) :
    CopiesIn(r, after) = IF r._patchedAt < timestamp THEN 0 ELSE CopiesIn(r, before)

\* every stored patch row is still stored, as often as before and unchanged
PatchRowsKept(n) ==
  /\ testA_patches[n] \sqsubseteq testA_patches'[n]
  /\ pending_patches[n] \sqsubseteq pending_patches'[n]

\* the step is a sweep of node n, alone or in the hourly heartbeat
SweepStep(n) ==
  \/ St(n)' = _deleteOldPatches(Begin(St(n)))
  \/ St(n)' = _heartBeatHourly(St(n))

\* C27: on a node whose statements are prepared _deleteOldPatches removes
\* from the shadow table and from pending_patches exactly the rows with
\* _patchedAt < hlc.from(now - MAX_PATCH_RETENTION_MS) and changes nothing
\* else; no step other than a sweep removes or changes a stored patch row,
\* and no step removes a row of the materialised table.
C27_RetentionSweep ==
  /\ [](\A n \in Nodes :
          LET s == St(n)
              r == _deleteOldPatches(s)
          IN  PENDING_PATCHES_TABLE_NAME \in s.tableStatements
              => /\ Swept(s.testA_patches, r.testA_patches, OldestPatchTimestamp(s))
                 /\ Swept(s.pending_patches, r.pending_patches, OldestPatchTimestamp(s))
                 /\ r = [s EXCEPT !.testA_patches = r.testA_patches,
                                  !.pending_patches = r.pending_patches])
  /\ [][\A n \in Nodes :
          /\ PatchRowsKept(n) \/ SweepStep(n)
          /\ {row.id : row \in testA[n]} \subseteq {row.id : row \in testA[n]'}]_vars

\* node 1 has received both patches of peer 3; the first, stamped below the
\* cut-off, is gone from the shadow table, the second, stamped with the
\* cut-off itself, is still there, and the row the first one made is still
\* in testA
C27_Witness ==
  /\ wall[1] = 2 /\ Len(remote[3]) = 2
  /\ 3 \in DOMAIN peerStats[1] /\ peerStats[1][3][LAST_SEQUENCE_ID] = 2
  /\ remote[3][1].at < OldestPatchTimestamp(St(1))
  /\ remote[3][2].at = OldestPatchTimestamp(St(1))
  /\ remote[3][1].ver = dbVersion[1] /\ remote[3][2].ver = dbVersion[1]
  /\ Copies(1, 3, 1) = 0 /\ Copies(1, 3, 2) = 1
  /\ \E row \in testA[1] : row.id = "r2"

\* PATCH messages a socket of peer p may emit
PatchesOn(p) ==
  {[type |-> PATCH, at |-> from(w, 0), peer |-> p, seq |-> seq, ver |-> 1,
    tab |-> UserTable, delta |-> [id |-> "r1", name |-> "b"]] :
      w \in Walls, seq \in 1..MaxSeq}

\* C29: addRemotePeer(peerId, socket) with peerId # myPeerId makes socket
\* the only socket registered for peerId; the listener is attached to it
\* and detached from the socket the peer had before, so that a message
\* this old socket emits afterwards is not processed; peerStats[peerId]
\* becomes [0,0,0,0,0] only when the peer had none and is otherwise left as
\* it was, as are the stats of every other peer; with peerId = myPeerId the
\* call changes nothing.  A socket is the connection of one peer.
C29_AddRemotePeer ==
  \A n \in Nodes : \A p \in Nodes \cup Producers : \A socket \in SocketsOf(p) :
    LET s == St(n)
        r == addRemotePeer(s, p, socket)
    IN  IF p = n THEN r = s
        ELSE /\ r.peerSockets = With(s.peerSockets, p, socket)
             /\ CopiesIn(socket, r.listeners) = 1
             /\ \A old \in SocketsOf(p) \ {socket} :
                  /\ CopiesIn(old, r.listeners) = 0
                  /\ \A msg \in PatchesOn(p) : emit(r, old, msg) = r
             /\ \A q \in Producers \ {p} : \A other \in SocketsOf(q) :
                  CopiesIn(other, r.listeners) = CopiesIn(other, s.listeners)
             /\ r.peerStats = IF p \in DOMAIN s.peerStats THEN s.peerStats
                              ELSE With(s.peerStats, p, NewPeerStat)
             /\ r = [s EXCEPT !.peerSockets = r.peerSockets,
                              !.listeners = r.listeners,
                              !.nbConnectedPeers = r.nbConnectedPeers,
                              !.peerStats = r.peerStats,
                              !.peerStartedNotSynced = r.peerStartedNotSynced]

\* peer 3, whose first patch node 1 has tracked, is registered with its
\* second socket; the first one, which it could have been registered with
\* before only, no longer has the listener
C29_Witness ==
  /\ 3 \in DOMAIN peerSockets[1] /\ peerSockets[1][3] = "s3b"
  /\ CopiesIn("s3b", listeners[1]) = 1 /\ CopiesIn("s3a", listeners[1]) = 0
  /\ peerStats[1][3][LAST_SEQUENCE_ID] = 1
  /\ Copies(1, 3, 1) = 1 /\ Copies(1, 3, 2) = 0 /\ Len(remote[3]) = 2
  /\ 4 \in DOMAIN peerSockets[1]

\* nothing that s broadcasts and no MISSING_PATCH request of s goes to p
NothingSentTo(s, p) ==
  /\ \A i \in DOMAIN _generatePingStatMessage(s, FALSE).sent :
       _generatePingStatMessage(s, FALSE).sent[i].to # p
  /\ \A i \in DOMAIN _detectAndRequestMissingPatches(s).sent :
       _detectAndRequestMissingPatches(s).sent[i].to # p

\* what pauseRemotePeer and closeRemotePeer have in common: the listener is
\* detached, the socket removed, nothing is sent to p afterwards
Disconnected(s, r, p) ==
  /\ p \notin DOMAIN r.peerSockets
  /\ \A socket \in SocketsOf(p) : CopiesIn(socket, r.listeners) = 0
  /\ \A q \in DOMAIN s.peerSockets \ {p} :
       q \in DOMAIN r.peerSockets /\ r.peerSockets[q] = s.peerSockets[q]
  /\ NothingSentTo(r, p)

\* C30: pauseRemotePeer(p) detaches the listener and removes the socket of
\* p and keeps peerStats[p]; closeRemotePeer(p) removes the socket and the
\* peerStats entry of p; after either call no broadcast and no MISSING_PATCH
\* request goes to p.
C30_PauseAndClose ==
  \A n \in Nodes : \A p \in Producers :
    LET s == St(n)
        paused == pauseRemotePeer(s, p)
        closed == closeRemotePeer(s, p)
    IN  /\ Disconnected(s, paused, p)
        /\ paused.peerStats = s.peerStats
        /\ Disconnected(s, closed, p)
        /\ p \notin DOMAIN closed.peerStats

\* the messages peer p has sent or may send: its patches and a PING for
\* each of its sequence ids
SentBy(p) == {remote[p][i] : i \in DOMAIN remote[p]} \cup {PingOf(p, k) : k \in 0..Len(remote[p])}

\* C31: on a PATCH or PING of a known peer, with gap = msg.seq -
\* GUARANTEED_CONTIGUOUS_SEQUENCE_ID: gap = 1 sets both GUARANTEED fields
\* to (msg.seq, msg.at); gap > 1 leaves them; msg.seq > LAST_SEQUENCE_ID
\* sets the LAST fields to (msg.seq, msg.at); a message with msg.seq <=
\* GUARANTEED_CONTIGUOUS_SEQUENCE_ID changes nothing in the vector but
\* LAST_MESSAGE_TIMESTAMP.
C31_PeerStatUpdate ==
  \A n \in Nodes : \A p \in DOMAIN peerStats[n] : \A msg \in SentBy(p) :
    LET s == St(n)
        old == s.peerStats[p]
        new == _onMessage(s, msg).peerStats[p]
        gap == msg.seq - old[GUARANTEED_CONTIGUOUS_SEQUENCE_ID]
    IN  Prepared(n) /\ UserTable \in tableStatements[n]
        => /\ gap = 1 => /\ new[GUARANTEED_CONTIGUOUS_SEQUENCE_ID] = msg.seq
                         /\ new[GUARANTEED_CONTIGUOUS_PATCH_AT_TIMESTAMP] = msg.at
           /\ gap > 1 => /\ new[GUARANTEED_CONTIGUOUS_SEQUENCE_ID]
                              = old[GUARANTEED_CONTIGUOUS_SEQUENCE_ID]
                         /\ new[GUARANTEED_CONTIGUOUS_PATCH_AT_TIMESTAMP]
                              = old[GUARANTEED_CONTIGUOUS_PATCH_AT_TIMESTAMP]
           /\ msg.seq > old[LAST_SEQUENCE_ID]
                => /\ new[LAST_SEQUENCE_ID] = msg.seq
                   /\ new[LAST_PATCH_AT_TIMESTAMP] = msg.at
           /\ msg.seq <= old[GUARANTEED_CONTIGUOUS_SEQUENCE_ID]
                => new = [old EXCEPT ![LAST_MESSAGE_TIMETSAMP] = s.wall]

\* the lower bound of the scan a heartbeat of s makes
ScanFrom(s) ==
  Min({s.peerStats[p][GUARANTEED_CONTIGUOUS_PATCH_AT_TIMESTAMP] : p \in Lagging(s)})

\* the gap entries of peer p in a pass, lowest sequence id first
EntriesOf(entries, p) ==
  SelectSeq(entries, LAMBDA e : e.peerId = p)

\* C32: in a _getMissingPatches pass every known peer with a gap entry gets
\* its GUARANTEED_CONTIGUOUS_* fields from its first gap entry, with or
\* without a socket; every known peer without a gap entry gets them from
\* its LAST_* fields, and synced(peer) is emitted for it if it has not been
\* emitted yet.
C32_ScanUpdatesStats ==
  \A n \in Nodes :
    LET s == Begin(St(n))
        entries == listMissingSequenceIds(s, ScanFrom(s))
        r == _getMissingPatches(s, ScanFrom(s))
        Emitted32(x) == {x.synced[i] : i \in DOMAIN x.synced}
    IN  Prepared(n) /\ Lagging(s) # {}
        => \A p \in DOMAIN s.peerStats :
             LET old == s.peerStats[p]
                 new == r.peerStats[p]
                 mine == EntriesOf(entries, p)
             IN  IF mine # << >>
                 THEN /\ new[GUARANTEED_CONTIGUOUS_SEQUENCE_ID] = mine[1].sequenceId
                      /\ new[GUARANTEED_CONTIGUOUS_PATCH_AT_TIMESTAMP] = mine[1].patchedAt
                 ELSE /\ new[GUARANTEED_CONTIGUOUS_SEQUENCE_ID] = old[LAST_SEQUENCE_ID]
                      /\ new[GUARANTEED_CONTIGUOUS_PATCH_AT_TIMESTAMP]
                           = old[LAST_PATCH_AT_TIMESTAMP]
                      /\ p \in s.peerStartedNotSynced => p \in Emitted32(r)

\* the merge passes of testA that wait for the event loop
PendingPasses(s) ==
  (IF s.flushScheduled THEN 1 ELSE 0) + Cardinality(s.orphanFlushes)

\* C33: the inbound patches for testA received between two yield points
\* cause exactly one applyPatches pass, run from the minimum `at` among
\* them: a stored patch leaves one pass pending whose lower bound is the
\* smaller of its `at` and the bound of the pass already pending; the pass
\* puts debounceFromTimestamp back to MAX_SAFE_INTEGER; and a pass is
\* pending exactly when debounceFromTimestamp is below MAX_SAFE_INTEGER.
C33_DebouncedMerge ==
  \A n \in Nodes :
    LET s == St(n)
    IN  /\ PendingPasses(s) > 0 <=> s.debounceFromTimestamp < MAX_SAFE_INTEGER
        /\ \A p \in Producers : \A i \in DOMAIN remote[p] :
             LET msg == remote[p][i]
                 r == _onMessage(s, msg)
             IN  Prepared(n) /\ UserTable \in s.tableStatements /\ msg.ver = s.dbVersion
                 => /\ PendingPasses(r) = 1
                    /\ r.debounceFromTimestamp
                         = IF PendingPasses(s) > 0 /\ s.debounceFromTimestamp < msg.at
                           THEN s.debounceFromTimestamp ELSE msg.at
        /\ s.flushScheduled
           => \A scan \in Scans(TRUE, s.testA_patches, s.debounceFromTimestamp) :
                /\ flush(Begin(s), scan).debounceFromTimestamp = MAX_SAFE_INTEGER
                /\ PendingPasses(flush(Begin(s), scan)) = PendingPasses(s) - 1

\* the patch (p, seq) is in the shadow table of node n
InShadow(n, p, seq) ==
  \E r \in BagToSet(testA_patches[n]) : r._peerId = p /\ r._sequenceId = seq

\* C34: a remote patch stored in the shadow table is eventually merged into
\* the materialised table, however later patches, local upserts and
\* flushes interleave; and no stored patch is unmerged when no flush is
\* pending.
C34_StoredEventuallyMerged ==
  /\ \A seq \in 1..MaxSeq : InShadow(1, 3, seq) ~> Applied(1, 3, seq)
  /\ [](Quiescent(1) => \A seq \in 1..MaxSeq : InShadow(1, 3, seq) => Applied(1, 3, seq))

\* the second patch of peer 3 arrived before the first, which has the
\* smaller timestamp and another row id; a local write was made, and both
\* patches are merged
C34_Witness ==
  /\ Len(remote[3]) = 2 /\ remote[3][1].delta.id # remote[3][2].delta.id
  /\ InShadow(1, 3, 1) /\ InShadow(1, 3, 2)
  /\ 3 \in DOMAIN peerStats[1]
  /\ peerStats[1][3][GUARANTEED_CONTIGUOUS_SEQUENCE_ID] = 1
  /\ peerStats[1][3][LAST_SEQUENCE_ID] = 2
  /\ lastSequenceId[1] >= 1
  /\ Quiescent(1) /\ Applied(1, 3, 1) /\ Applied(1, 3, 2)

\* C35: the shadow table and pending_patches together hold at most one row
\* per (peerId, sequenceId): a patch received again adds no second row.
C35_OneRowPerSequenceId ==
  \A n \in Nodes : \A p \in Producers : \A seq \in 1..MaxSeq : Copies(n, p, seq) <= 1

\* delay * 2^k
RECURSIVE Doubled(_, _)
Doubled(delay, k) == IF k = 0 THEN delay ELSE 2 * Doubled(delay, k - 1)

\* what the record of a backoff call shows: onDone was called at most once,
\* by the last poll; the polls before it returned false before the deadline
Decided(b) ==
  /\ Len(b.done) <= 1
  /\ \A i \in 1..Len(b.polls) :
       i < Len(b.polls) \/ b.done = << >>
         => ~b.polls[i].result /\ b.polls[i].at - b.start < b.maxTime
  /\ b.done # << >> =>
       /\ b.done[1].polls = Len(b.polls)
       /\ ~b.timer.pending
       /\ LET last == b.polls[Len(b.polls)]
          IN  /\ b.done[1].success = last.result
              /\ ~last.result => last.at - b.start >= b.maxTime
  /\ b.done = << >> => b.timer.pending

\* the first poll is made at the start, and the i-th wait is the delay doubled
\* i - 1 times, capped by what is left of maxTime when the wait begins
Paced(b) ==
  /\ b.polls[1].at = b.start
  /\ \A i \in 1..Len(b.waits) :
       /\ b.waits[i].at = b.polls[i].at
       /\ b.waits[i].delay = Min({Doubled(b.delay, i - 1),
                                  b.maxTime - (b.waits[i].at - b.start)})
       /\ i < Len(b.polls) => b.polls[i + 1].at >= b.waits[i].at + b.waits[i].delay

\* C36: a backoff call ends with exactly one onDone, true at the first poll
\* that returns true and false at the first poll made maxTime ms or more after
\* the start; fn is polled at once and then after waits of delay, 2 delay,
\* 4 delay, ..., each capped by the time left, and never after onDone.
C36_BackoffPaced ==
  \A n \in Nodes : backoffs[n].called => Decided(backoffs[n]) /\ Paced(backoffs[n])

\* the same when the first delay is no longer than maxTime
BackoffDecided ==
  \A n \in Nodes : backoffs[n].called =>
    /\ Decided(backoffs[n])
    /\ backoffs[n].delay <= backoffs[n].maxTime => Paced(backoffs[n])

\* every backoff call comes to its onDone
BackoffEnds ==
  \A n \in Nodes : backoffs[n].called ~> backoffs[n].called /\ Len(backoffs[n].done) = 1

\* lastSequenceId and lastPatchAtTimestamp of r are the highest sequence id
\* and patch time of the own patches stored in r, or 0 when there is none
SequenceFromDatabase(r) ==
  LET own == {k \in AllPatchKeys(r) : k.peerId = r.myPeerId}
  IN  /\ r.lastSequenceId = Max({0} \cup {k.sequenceId : k \in own})
      /\ r.lastPatchAtTimestamp = Max({0} \cup {k.patchedAt : k \in own})

\* C37: after a migrate(appMigrations) that does not throw, dbVersion is
\* appMigrations.length, or 1 when the list is empty, an upsert that follows
\* is not refused with 'Database version is not set', and lastSequenceId and
\* lastPatchAtTimestamp are those of the own patches stored in the database.
C37_MigrateSetsVersion ==
  \A n \in Nodes : \A appMigrations \in AppMigrationLists :
    LET s == St(n)
        r == migrate(s, appMigrations)
    IN  ~migrateThrows(s, appMigrations) =>
          /\ r.dbVersion = IF appMigrations = << >> THEN 1 ELSE Len(appMigrations)
          /\ upsert(r, UserTable, KeyedRow, TRUE, << >>).cbResult.err
               # "Database version is not set"
          /\ SequenceFromDatabase(r)

\* the same with dbVersion = appMigrations.length for every list
MigrateSetsLength ==
  \A n \in Nodes : \A appMigrations \in AppMigrationLists :
    LET s == St(n)
        r == migrate(s, appMigrations)
    IN  ~migrateThrows(s, appMigrations) =>
          /\ r.dbVersion = Len(appMigrations)
          /\ appMigrations # << >> =>
               upsert(r, UserTable, KeyedRow, TRUE, << >>).cbResult.err
                 # "Database version is not set"
          /\ SequenceFromDatabase(r)

\* C38: a migrate call whose transaction throws and is rolled back leaves
\* dbVersion as it was before the call, the version of the catalog that is
\* still in place.
C38_FailedMigrateKeepsVersion ==
  \A n \in Nodes : \A appMigrations \in AppMigrationLists :
    LET s == St(n)
        r == migrate(s, appMigrations)
    IN  migrateThrows(s, appMigrations) =>
          /\ r.schema = s.schema /\ r.migrations = s.migrations
          /\ r.dbVersion = s.dbVersion

\* a step that emits synced(p) ends with the contiguous prefix of p equal to
\* the highest sequence id seen of p
StepEmitsWhenSynced ==
  \A n \in Nodes :
    Len(synced'[n]) > Len(synced[n])
    => LET p == synced'[n][Len(synced'[n])]
       IN  peerStats'[n][p][GUARANTEED_CONTIGUOUS_SEQUENCE_ID]
             = peerStats'[n][p][LAST_SEQUENCE_ID]

\* C39: when synced(p) is emitted, GUARANTEED_CONTIGUOUS_SEQUENCE_ID of p
\* equals LAST_SEQUENCE_ID of p; the event is not emitted while a sequence id
\* of p has been seen that the contiguous prefix does not reach.
C39_EmittedWhenSynced == [][StepEmitsWhenSynced]_vars

\* C40: the counter reported as db_replication_connected_peers is the number
\* of peers that have a registered socket, and is never negative, whatever
\* addRemotePeer, pauseRemotePeer and closeRemotePeer calls were made.
C40_ConnectedPeersCounter ==
  \A n \in Nodes :
    /\ nbConnectedPeers[n] = Cardinality(DOMAIN peerSockets[n])
    /\ nbConnectedPeers[n] >= 0
====
